---- MODULE Spec2Model ----
(***************************************************************************)
(* The lift editor of liftbook: the editing-session state machine of       *)
(* LiftEditorScreen.tsx, the submit validation of the entry footer, and    *)
(* the AsyncStorage-backed lift store of utils.ts with its asynchronous    *)
(* read / write steps.                                                     *)
(*                                                                         *)
(* Text values (titles, movement names, weights, reps) are sequences of    *)
(* one-character strings, so that trim() and the number check are          *)
(* computed.  A nullable number is <<>> (null) or <<n>>.                    *)
(***************************************************************************)
EXTENDS Integers, Sequences, FiniteSets, TLC

VARIABLES
    lift,                   \* useState<Lift>: [id, date, title, movements]
    entryMode,              \* "single" | "double"
    editingTarget,          \* "none" | "title" | "movementName" | "set"
    editingMovementIndex,   \* number | null
    editingSetIndex,        \* number | null
    isAddingNewMovement,    \* boolean
    isLoading,              \* boolean: the footer is rendered only when FALSE
    allLifts,               \* the editor's cache: lift id -> Lift
    shouldFocusSetAfterMovementSubmit,  \* "focus set next" flag
    store,                  \* AsyncStorage item user_lifts, parsed: key -> Lift
    pending,                \* asynchronous store operations in flight, in issue order
    writeOrderBroken,       \* history: some write overtook a write issued before it
    mutated,                \* history: a handler has changed the lift's title or movements
    isTransitioningToSetRef,      \* useRef: a tap on an empty line is switching to a set
    pendingResetKeyIncrementRef,  \* useRef: bump the footer key once the target is set
    transitionTimers,       \* pending 100 ms timeouts that clear isTransitioningToSetRef
    firstValue,             \* EntryFooter useState: text of the first field
    secondValue,            \* EntryFooter useState: text of the second field
    shownWarning,           \* the warning on display: warningMessage while showWarning, else ""
    hasTriggeredDismissRef, \* EntryFooter useRef: the swipe has cleared and dismissed
    gestureState,           \* the pan gesture handler: "UNDETERMINED" | "ACTIVE"
    firesInGesture,         \* history: clear-and-dismiss actions of the current gesture
    route,                  \* the screen on display: "LiftEditor" | "LiftList"
    titleLayoutRef,         \* useRef: the layout of the title bubble, or null
    movementLayoutsRef,     \* useRef: movement index -> layout of its bubble
    setLayoutsRef,          \* useRef: <<movement index, set index>> -> layout of the set line
    addSetLayoutsRef,       \* useRef: movement index -> layout of its empty line
    scrollRetryTimeoutRef,  \* useRef: the pending 200 ms retry with what its callback closed over
    animationFrames,        \* requestAnimationFrame callbacks that have not run yet
    lastScrollTo,           \* history: y of the scrollTo issued since the scroll effect last ran
    lastSyncItem,           \* AsyncStorage item last_sync_time: null or a time
    now,                    \* Date.now(), in minutes
    syncCalls,              \* syncToDatabase calls in flight
    remoteWrites            \* history: the set(userRef('lifts')) calls made

vars == <<lift, entryMode, editingTarget, editingMovementIndex, editingSetIndex,
          isAddingNewMovement, isLoading, allLifts,
          shouldFocusSetAfterMovementSubmit, store, pending, writeOrderBroken,
          mutated, isTransitioningToSetRef, pendingResetKeyIncrementRef,
          transitionTimers, firstValue, secondValue, shownWarning,
          hasTriggeredDismissRef, gestureState, firesInGesture, route,
          titleLayoutRef, movementLayoutsRef, setLayoutsRef, addSetLayoutsRef,
          scrollRetryTimeoutRef, animationFrames, lastScrollTo,
          lastSyncItem, now, syncCalls, remoteWrites>>

editVars == <<entryMode, editingTarget, editingMovementIndex, editingSetIndex,
              isAddingNewMovement>>

refVars == <<isTransitioningToSetRef, pendingResetKeyIncrementRef, transitionTimers>>

gestureVars == <<hasTriggeredDismissRef, gestureState, firesInGesture>>

footerVars == <<firstValue, secondValue, shownWarning, gestureVars>>

layoutVars == <<titleLayoutRef, movementLayoutsRef, setLayoutsRef, addSetLayoutsRef>>

scrollVars == <<layoutVars, scrollRetryTimeoutRef, animationFrames, lastScrollTo>>

syncVars == <<lastSyncItem, now, syncCalls, remoteWrites>>

(***************************************************************************)
(* Bounds of the model.                                                    *)
(***************************************************************************)
MaxMovements == 2
MaxSets == 2
MaxPending == 2
MaxTimers == 2
MaxSavingMovements == 1
MaxSavingSets == 1
MaxFires == 2
MaxDeletes == 1
MaxTextLen == 3
MaxFrames == 1
MaxClock == 6
MaxSyncCalls == 2

(***************************************************************************)
(* Nullable numbers.                                                       *)
(***************************************************************************)
Null == <<>>
Some(n) == <<n>>
Val(x) == x[1]

\* the interval of the push to the database, 5 * 60 * 1000 ms, in minutes
SYNC_INTERVAL == 5
\* Date.now() at the start: more than an interval after time 0
ClockStart == 2 * SYNC_INTERVAL

NEW_MOVEMENT_INDEX == -1

(***************************************************************************)
(* Text.                                                                   *)
(***************************************************************************)
Digits == {"0", "5"}
WhiteSpace == {" "}

RECURSIVE TrimStart(_)
TrimStart(s) ==
    IF s # <<>> /\ Head(s) \in WhiteSpace THEN TrimStart(Tail(s)) ELSE s

RECURSIVE TrimEnd(_)
TrimEnd(s) ==
    IF s # <<>> /\ s[Len(s)] \in WhiteSpace
    THEN TrimEnd(SubSeq(s, 1, Len(s) - 1))
    ELSE s

\* String.prototype.trim
Trim(s) == TrimEnd(TrimStart(s))

\* /^\d*\.?\d+$/ : digits, an optional dot, then at least one digit
MatchesNumberRegex(s) ==
    \E d \in 0..Len(s) :
        /\ \A i \in 1..d : s[i] \in Digits
        /\ \/ /\ d < Len(s)
              /\ \A i \in (d + 1)..Len(s) : s[i] \in Digits
           \/ /\ d + 1 < Len(s)
              /\ s[d + 1] = "."
              /\ \A i \in (d + 2)..Len(s) : s[i] \in Digits

\* a variant that takes every parsed value: parseFloat(value) >= 0
ParsesNonNegative(s) == TRUE

\* parseFloat(value) > 0, for a value that matches the regex: some digit is not 0
ParsesPositive(s) == \E i \in 1..Len(s) : s[i] \in Digits \ {"0"}

isValidNumber(value) == MatchesNumberRegex(value) /\ ParsesPositive(value)

(***************************************************************************)
(* The inputs of the model: what the user types, picks and opens.          *)
(***************************************************************************)
TitleInputs == { <<>>, <<" ">>, <<"A", " ">> }
NameInputs == { <<>>, <<"A">>, <<" ", "B">> }
WeightInputs == { <<>>, <<"5">>, <<".", "5">>, <<"0">>, <<"-", "5">> }
RepsInputs == { <<>>, <<"5">>, <<"5", ".">> }
Dates == {"2024-01-01", "2024-01-02"}
Today == "2024-01-01"
NewId == "1700000000000"        \* Date.now().toString() of a new lift
OpenId == "1600000000000"       \* route.params.liftId of an opened lift

\* /^\d{4}-\d{2}-\d{2}$/ over the keys of the model
LooksLikeDate(key) == key \in Dates

MkSet(w, r) == [weight |-> w, reps |-> r]
MkMovement(n, ss) == [name |-> n, sets |-> ss]
MkLift(i, d, t, ms) == [id |-> i, date |-> d, title |-> t, movements |-> ms]

NoLift == MkLift("", "", <<>>, <<>>)
NoStore == [k \in {} |-> NoLift]

(***************************************************************************)
(* The lift values the handlers build (each is a new value).               *)
(***************************************************************************)
\* a variant that starts the document over: { id, date, title: first, movements: [] }
titleNewLiftFresh(l, first) == [l EXCEPT !.title = first, !.movements = <<>>]

\* a variant that gives the titled lift a new id: { ...lift, id: Date.now(), title: first }
titleNewLiftNewId(l, first) == [l EXCEPT !.title = first, !.id = NewId]

\* handleEntrySubmit, title branch: { ...lift, title: first }
titleNewLift(l, first) == [l EXCEPT !.title = first]

\* a variant whose map forgets the index test: every movement is renamed
renameEveryNewLift(l, index, first) ==
    [l EXCEPT !.movements =
        [idx \in 1..Len(l.movements) |-> [l.movements[idx] EXCEPT !.name = first]]]

\* handleEntrySubmit, existing movement: map(idx === editingMovementIndex ? {...m, name: first} : m)
renameNewLift(l, index, first) ==
    [l EXCEPT !.movements =
        [idx \in 1..Len(l.movements) |->
            IF idx - 1 = index
            THEN [l.movements[idx] EXCEPT !.name = first]
            ELSE l.movements[idx]]]

\* a variant that puts the new movement first: [{ name: first, sets: [] }, ...lift.movements]
prependMovementNewLift(l, first) ==
    [l EXCEPT !.movements = <<MkMovement(first, <<>>)>> \o l.movements]

\* handleEntrySubmit, new movement: [...lift.movements, { name: first, sets: [] }]
appendMovementNewLift(l, first) ==
    [l EXCEPT !.movements = Append(l.movements, MkMovement(first, <<>>))]

\* m.sets[editingSetIndex] is truthy: the index is one of the movement's sets
HasSetAt(m, setIndex) ==
    setIndex # Null /\ Val(setIndex) >= 0 /\ Val(setIndex) < Len(m.sets)

\* a variant that puts a new set first: [{ weight, reps }, ...m.sets]
submitSetsPrepend(m, target, setIndex, first, second) ==
    IF target = "set" /\ HasSetAt(m, setIndex)
    THEN [m.sets EXCEPT ![Val(setIndex) + 1] = MkSet(first, second)]
    ELSE <<MkSet(first, second)>> \o m.sets

\* a variant without the edit case: the set is always appended
submitSetsAlwaysAppend(m, target, setIndex, first, second) ==
    Append(m.sets, MkSet(first, second))

\* a variant whose edit case inserts the set in front of the edited one
submitSetsInsert(m, target, setIndex, first, second) ==
    IF target = "set" /\ HasSetAt(m, setIndex)
    THEN SubSeq(m.sets, 1, Val(setIndex)) \o <<MkSet(first, second)>> \o
         SubSeq(m.sets, Val(setIndex) + 1, Len(m.sets))
    ELSE Append(m.sets, MkSet(first, second))

\* handleEntrySubmit, double branch: the sets of the targeted movement
submitSets(m, target, setIndex, first, second) ==
    IF target = "set" /\ HasSetAt(m, setIndex)
    THEN [m.sets EXCEPT ![Val(setIndex) + 1] = MkSet(first, second)]
    ELSE Append(m.sets, MkSet(first, second))

\* handleEntrySubmit, double branch: map over the movements
setNewLift(l, target, movementIndex, setIndex, first, second) ==
    [l EXCEPT !.movements =
        [idx \in 1..Len(l.movements) |->
            IF Some(idx - 1) # movementIndex
            THEN l.movements[idx]
            ELSE [l.movements[idx] EXCEPT
                    !.sets = submitSets(l.movements[idx], target, setIndex,
                                        first, second)]]]

\* filter((_, i) => i !== index) of a sequence, index counted from 0
RemoveAt(seq, index) ==
    [k \in 1..(Len(seq) - (IF index >= 0 /\ index < Len(seq) THEN 1 ELSE 0)) |->
        IF k - 1 < index \/ index < 0 THEN seq[k] ELSE seq[k + 1]]

\* handleMovementLongPress, Delete
deleteMovementNewLift(l, index) ==
    [l EXCEPT !.movements = RemoveAt(l.movements, index)]

\* handleSetLongPress, Delete
deleteSetNewLift(l, movementIndex, setIndex) ==
    [l EXCEPT !.movements =
        [mi \in 1..Len(l.movements) |->
            IF mi - 1 # movementIndex
            THEN l.movements[mi]
            ELSE [l.movements[mi] EXCEPT
                    !.sets = RemoveAt(l.movements[mi].sets, setIndex)]]]

\* filter(movement => movement.sets.length > 0)
RECURSIVE WithSets(_)
WithSets(ms) ==
    IF ms = <<>> THEN <<>>
    ELSE IF Len(Head(ms).sets) > 0
         THEN <<Head(ms)>> \o WithSets(Tail(ms))
         ELSE WithSets(Tail(ms))

\* a variant without the filter: only the date is filled in
liftWithDateUnfiltered(liftToSave) ==
    [liftToSave EXCEPT
        !.date = IF liftToSave.date # "" THEN liftToSave.date ELSE Today]

\* saveLift: the value handed to saveLiftLocally
liftWithDate(liftToSave) ==
    [liftToSave EXCEPT
        !.date = IF liftToSave.date # "" THEN liftToSave.date ELSE Today,
        !.movements = WithSets(liftToSave.movements)]

(***************************************************************************)
(* The store: utils.ts over the AsyncStorage item user_lifts.              *)
(***************************************************************************)
Put(f, key, value) ==
    [k \in DOMAIN f \cup {key} |-> IF k = key THEN value ELSE f[k]]

Without(f, key) == [k \in DOMAIN f \ {key} |-> f[k]]

\* a variant that files every dated lift under its date, as the older scheme did
NormalizedKeyByDate(s, key) ==
    IF s[key].date # "" THEN s[key].date ELSE key

\* getLocalData: a date key whose lift carries an id is filed under that id
NormalizedKey(s, key) ==
    IF LooksLikeDate(key) /\ s[key].id # "" THEN s[key].id ELSE key

\* getLocalData: the lifts it can return (when two keys are filed under one
\* id, the later entry of the stored object wins; the order is not modelled)
getLocalData(s) ==
    LET keys == { NormalizedKey(s, k) : k \in DOMAIN s }
        Sources(key) == { k \in DOMAIN s : NormalizedKey(s, k) = key }
        Choices == { c \in [keys -> DOMAIN s] : \A key \in keys : c[key] \in Sources(key) }
    IN  { [key \in keys |-> s[c[key]]] : c \in Choices }

\* retrieveLift, given what getLocalData returned: <<>> is null
retrieveLift(lifts, liftId) ==
    IF liftId \in DOMAIN lifts
    THEN { <<lifts[liftId]>> }
    ELSE IF LooksLikeDate(liftId) /\ \E k \in DOMAIN lifts : lifts[k].date = liftId
         THEN { <<lifts[k]>> : k \in { j \in DOMAIN lifts : lifts[j].date = liftId } }
         ELSE { <<>> }

\* an asynchronous store operation in flight
Op(kind, l, phase, snap) == [kind |-> kind, lift |-> l, phase |-> phase, snap |-> snap]

NumSaves(ops) == Cardinality({ k \in 1..Len(ops) : ops[k].kind = "save" })

RemoveOp(ops, k) == RemoveAt(ops, k - 1)

\* saveLift(liftToSave): liftWithDate is built before the first await
IssueSave(ops, liftToSave) ==
    Append(ops, Op("save", liftWithDate(liftToSave), "start", NoStore))

CanSave == NumSaves(pending) < MaxPending

(***************************************************************************)
(* The editing state and the effects that follow a render.                 *)
(***************************************************************************)
\* useEffect([editingTarget]) of the reset key: runs when the target changed
ResetKeyEffect(newTarget, pendingFlag) ==
    IF pendingFlag /\ newTarget = "set" /\ newTarget # editingTarget
    THEN /\ transitionTimers < MaxTimers
         /\ pendingResetKeyIncrementRef' = FALSE
         /\ transitionTimers' = transitionTimers + 1
    ELSE /\ pendingResetKeyIncrementRef' = pendingFlag
         /\ UNCHANGED transitionTimers

SetEditing(mode, target, movementIndex, setIndex, adding) ==
    /\ entryMode' = mode
    /\ editingTarget' = target
    /\ editingMovementIndex' = movementIndex
    /\ editingSetIndex' = setIndex
    /\ isAddingNewMovement' = adding

storeVars == <<store, writeOrderBroken>>

(***************************************************************************)
(* Scrolling to the active target.  A layout is what onLayout reported;    *)
(* the callbacks of the retry timer and of requestAnimationFrame keep the  *)
(* editing target, the indices and lift.movements of the render that made  *)
(* them, of which the number of sets of the targeted movement is kept.     *)
(***************************************************************************)
SCROLL_MARGIN == 128

LayoutIndices == {NEW_MOVEMENT_INDEX} \cup (0..(MaxMovements - 1))
SetLayoutKeys == (0..(MaxMovements - 1)) \X (0..(MaxSets - 1))

\* what scrollToActiveEditingTarget of one render closes over
Closure(target, movementIndex, setIndex, movements) ==
    [ target |-> target,
      movementIndex |-> movementIndex,
      setIndex |-> setIndex,
      sets |-> IF movementIndex # Null /\ Val(movementIndex) >= 0
                  /\ Val(movementIndex) < Len(movements)
               THEN Some(Len(movements[Val(movementIndex) + 1].sets))
               ELSE Null ]

\* the closure of the current render
ActiveClosure ==
    Closure(editingTarget, editingMovementIndex, editingSetIndex, lift.movements)

LayoutAt(layouts, key) == IF key \in DOMAIN layouts THEN layouts[key] ELSE Null

\* scrollToActiveEditingTarget: targetY, null when no layout gives it
targetYOf(c) ==
    IF c.target = "title"
    THEN Some(IF titleLayoutRef # Null THEN Val(titleLayoutRef).y ELSE 0)
    ELSE IF c.target = "movementName" /\ c.movementIndex # Null
    THEN LET movementLayout == LayoutAt(movementLayoutsRef, Val(c.movementIndex))
         IN  IF movementLayout # Null THEN Some(Val(movementLayout).y) ELSE Null
    ELSE IF c.target = "set" /\ c.movementIndex # Null
    THEN LET movementLayout == LayoutAt(movementLayoutsRef, Val(c.movementIndex))
             setLayout == IF c.setIndex = Null THEN Null
                          ELSE LayoutAt(setLayoutsRef,
                                        <<Val(c.movementIndex), Val(c.setIndex)>>)
             addSetLayout == LayoutAt(addSetLayoutsRef, Val(c.movementIndex))
         IN  IF movementLayout = Null THEN Null
             ELSE IF c.sets # Null /\ c.setIndex # Null /\ Val(c.setIndex) < Val(c.sets)
             THEN IF setLayout # Null
                  THEN Some(Val(movementLayout).y + Val(setLayout).y)
                  ELSE Null
             ELSE IF addSetLayout # Null
             THEN Some(Val(movementLayout).y + Val(addSetLayout).y)
             ELSE Some(Val(movementLayout).y + Val(movementLayout).height)
    ELSE Null

\* Math.max(0, targetY - SCROLL_MARGIN)
scrollY(targetY) ==
    IF targetY - SCROLL_MARGIN > 0 THEN targetY - SCROLL_MARGIN ELSE 0

\* scrollToActiveEditingTarget of closure c: the y it scrolls to, null when
\* it returns false (no scroll view after the unmount, or no targetY)
scrollToActiveEditingTarget(c) ==
    IF route # "LiftEditor" \/ targetYOf(c) = Null THEN Null
    ELSE Some(scrollY(Val(targetYOf(c))))

\* attemptScrollToActiveTarget of closure c, after it has cleared the
\* pending retry: the scroll, or a retry that keeps c; requested is the
\* scroll asked for before
attemptScrollToActiveTarget(c, requested) ==
    IF scrollToActiveEditingTarget(c) # Null
    THEN /\ scrollRetryTimeoutRef' = Null
         /\ lastScrollTo' = scrollToActiveEditingTarget(c)
    ELSE /\ scrollRetryTimeoutRef' = Some(c)
         /\ lastScrollTo' = requested

\* the effects of the scroll after the render that follows a handler.  The
\* title layout is forgotten when the title has become empty.  The scroll
\* effect runs again when the target or an index has changed or
\* lift.movements is a new array: its cleanup clears the pending retry, and
\* it attempts the scroll unless the target is none.  No handler empties a
\* title, so the attempt reads the title layout as it was
ScrollEffect(newMovementsArray) ==
    /\ titleLayoutRef' = IF lift'.title # lift.title /\ lift'.title = <<>>
                         THEN Null ELSE titleLayoutRef
    /\ IF ~newMovementsArray
          /\ <<editingTarget', editingMovementIndex', editingSetIndex'>>
                = <<editingTarget, editingMovementIndex, editingSetIndex>>
       THEN UNCHANGED <<scrollRetryTimeoutRef, lastScrollTo>>
       ELSE IF editingTarget' = "none"
       THEN scrollRetryTimeoutRef' = Null /\ lastScrollTo' = Null
       ELSE attemptScrollToActiveTarget(
                Closure(editingTarget', editingMovementIndex', editingSetIndex',
                        lift'.movements), Null)
    /\ UNCHANGED <<movementLayoutsRef, setLayoutsRef, addSetLayoutsRef, animationFrames>>

\* the editor is unmounted: the cleanup of the scroll effect
ScrollUnmount ==
    /\ scrollRetryTimeoutRef' = Null
    /\ UNCHANGED <<layoutVars, animationFrames, lastScrollTo>>


(***************************************************************************)
(* EntryFooter.handleSubmit: the validation in front of onSubmit.          *)
(***************************************************************************)
firstPlaceholder ==
    IF lift.title = <<>> \/ editingTarget = "title" THEN "Enter lift title..."
    ELSE IF editingTarget = "set" THEN "Enter weight..."
    ELSE "Enter movement name..."

\* a variant that only asks for non-empty values
handleSubmitAcceptsAnyText(mode, placeholder, firstToUse, secondToUse) ==
    /\ firstToUse # <<>>
    /\ (mode = "double") => secondToUse # <<>>

\* handleSubmit reaches onSubmit with the trimmed values
handleSubmitAccepts(mode, placeholder, firstToUse, secondToUse) ==
    IF mode = "single"
    THEN /\ firstToUse # <<>>
         /\ (placeholder = "Enter weight...") => isValidNumber(firstToUse)
    ELSE /\ mode = "double"
         /\ firstToUse # <<>>
         /\ secondToUse # <<>>
         /\ isValidNumber(firstToUse)
         /\ isValidNumber(secondToUse)

\* what the user types depends on what the footer asks for
FirstInputs ==
    IF entryMode = "double" THEN WeightInputs
    ELSE IF firstPlaceholder = "Enter lift title..." THEN TitleInputs
    ELSE NameInputs
SecondInputs == IF entryMode = "single" THEN { <<>> } ELSE RepsInputs

(***************************************************************************)
(* LiftEditorScreen.handleEntrySubmit, one definition per branch.          *)
(***************************************************************************)
isExistingMovement(l, target, movementIndex, adding) ==
    /\ target = "movementName"
    /\ movementIndex # Null
    /\ Val(movementIndex) >= 0
    /\ Val(movementIndex) < Len(l.movements)
    /\ ~adding

\* the branch handleEntrySubmit takes
submitBranch(l, mode, target, movementIndex, adding, second) ==
    IF mode = "single"
    THEN IF target = "title" \/ l.title = <<>> THEN "title"
         ELSE IF isExistingMovement(l, target, movementIndex, adding) THEN "rename"
         ELSE "newMovement"
    ELSE IF mode = "double" /\ second # <<>> THEN "set"
    ELSE "none"

\* the lift handleEntrySubmit hands to setLift
entrySubmitLift(l, mode, target, movementIndex, setIndex, adding, first, second) ==
    LET branch == submitBranch(l, mode, target, movementIndex, adding, second)
    IN  CASE branch = "title" -> titleNewLift(l, first)
          [] branch = "rename" -> renameNewLift(l, Val(movementIndex), first)
          [] branch = "newMovement" -> appendMovementNewLift(l, first)
          [] branch = "set" ->
                setNewLift(l, target, movementIndex, setIndex, first, second)
          [] OTHER -> l

Branch(second) ==
    submitBranch(lift, entryMode, editingTarget, editingMovementIndex,
                 isAddingNewMovement, second)

NewLift(first, second) ==
    entrySubmitLift(lift, entryMode, editingTarget, editingMovementIndex,
                    editingSetIndex, isAddingNewMovement, first, second)

\* single mode, the title is being edited or is still empty
SubmitTitle(first) ==
    /\ Branch(<<>>) = "title"
    /\ CanSave
    /\ lift' = NewLift(first, <<>>)
    /\ pending' = IssueSave(pending, lift')
    /\ SetEditing("single", "movementName", Some(NEW_MOVEMENT_INDEX), Null, TRUE)
    /\ ResetKeyEffect("movementName", pendingResetKeyIncrementRef)
    /\ UNCHANGED <<isLoading, allLifts, shouldFocusSetAfterMovementSubmit,
                   storeVars, isTransitioningToSetRef>>
    /\ mutated' = (mutated \/ lift' # lift)
    /\ UNCHANGED route
    /\ ScrollEffect(FALSE)
    /\ UNCHANGED syncVars

\* the editing state after a rename
renameEditing ==
    /\ editingTarget' = "none"
    /\ editingMovementIndex' = Null
    /\ entryMode' = "single"
    /\ isAddingNewMovement' = FALSE
    /\ UNCHANGED editingSetIndex

\* single mode, an existing movement is renamed
SubmitRename(first) ==
    /\ Branch(<<>>) = "rename"
    /\ CanSave
    /\ lift' = NewLift(first, <<>>)
    /\ pending' = IssueSave(pending, lift')
    /\ renameEditing
    /\ ResetKeyEffect("none", pendingResetKeyIncrementRef)
    /\ UNCHANGED <<isLoading, allLifts, shouldFocusSetAfterMovementSubmit, storeVars,
                   isTransitioningToSetRef>>
    /\ mutated' = (mutated \/ lift' # lift)
    /\ UNCHANGED route
    /\ ScrollEffect(TRUE)
    /\ UNCHANGED syncVars

\* single mode, anything else: a new movement is appended (and not saved)
SubmitNewMovement(first) ==
    /\ Branch(<<>>) = "newMovement"
    /\ Len(lift.movements) < MaxMovements
    /\ lift' = NewLift(first, <<>>)
    /\ SetEditing("double", "set", Some(Len(lift.movements)), Some(0), FALSE)
    /\ shouldFocusSetAfterMovementSubmit' = TRUE
    /\ ResetKeyEffect("set", pendingResetKeyIncrementRef)
    /\ UNCHANGED <<isLoading, allLifts, storeVars, pending, isTransitioningToSetRef>>
    /\ mutated' = (mutated \/ lift' # lift)
    /\ UNCHANGED route
    /\ ScrollEffect(TRUE)
    /\ UNCHANGED syncVars

\* the movement a double submit is applied to, if any
TargetedMovement(l, movementIndex) ==
    IF /\ movementIndex # Null
       /\ Val(movementIndex) >= 0
       /\ Val(movementIndex) < Len(l.movements)
    THEN << l.movements[Val(movementIndex) + 1] >>
    ELSE << >>

\* double mode with a second value
SubmitSet(first, second) ==
    /\ Branch(second) = "set"
    /\ CanSave
    /\ \A m \in { TargetedMovement(lift, editingMovementIndex) } :
          (m # <<>> /\ ~(editingTarget = "set" /\ HasSetAt(m[1], editingSetIndex)))
             => Len(m[1].sets) < MaxSets
    /\ lift' = NewLift(first, second)
    /\ pending' = IssueSave(pending, lift')
    /\ IF TargetedMovement(lift', editingMovementIndex) # <<>>
       THEN /\ editingSetIndex' =
                  Some(Len(TargetedMovement(lift', editingMovementIndex)[1].sets))
            /\ editingTarget' = "set"
       ELSE UNCHANGED <<editingSetIndex, editingTarget>>
    /\ entryMode' = "double"
    /\ ResetKeyEffect(editingTarget', pendingResetKeyIncrementRef)
    /\ UNCHANGED <<editingMovementIndex, isAddingNewMovement, isLoading, allLifts,
                   shouldFocusSetAfterMovementSubmit, storeVars,
                   isTransitioningToSetRef>>
    /\ mutated' = (mutated \/ lift' # lift)
    /\ UNCHANGED route
    /\ ScrollEffect(TRUE)
    /\ UNCHANGED syncVars

handleEntrySubmit(first, second) ==
    \/ SubmitTitle(first)
    \/ SubmitRename(first)
    \/ SubmitNewMovement(first)
    \/ SubmitSet(first, second)

\* handleSubmit refused the values: only the warning is shown
\* the state of LiftEditorScreen and of the store
screenVars == <<lift, editVars, isLoading, allLifts, shouldFocusSetAfterMovementSubmit,
                store, writeOrderBroken, pending, mutated, refVars, route,
                scrollVars, syncVars>>

\* handleSubmit: the message of the early return taken
warningFor(mode, placeholder, firstToUse, secondToUse) ==
    IF mode = "single"
    THEN IF firstToUse = <<>>
         THEN IF placeholder = "Enter weight..." THEN "Please enter a weight"
              ELSE "Please enter a value"
         ELSE "Please enter a valid positive number for weight"
    ELSE IF firstToUse = <<>> THEN "Please enter a weight"
    ELSE IF secondToUse = <<>> THEN "Please enter the number of reps"
    ELSE IF ~isValidNumber(firstToUse)
         THEN "Please enter a valid positive number for weight"
    ELSE "Please enter a valid positive number for reps"

\* handleSubmit returns early: showWarningMessage, onSubmit is not called
SubmitRejected(firstToUse, secondToUse) ==
    /\ shownWarning' = warningFor(entryMode, firstPlaceholder, firstToUse, secondToUse)
    /\ UNCHANGED <<screenVars, firstValue, secondValue, gestureVars>>

\* the values in the fields pass handleSubmit's checks
Accepted(firstText, secondText) ==
    handleSubmitAccepts(entryMode, firstPlaceholder, Trim(firstText), Trim(secondText))

\* the user submits the values in the fields: EntryFooter.handleSubmit, then
\* onSubmit and the clearing of the fields
Submit(firstText, secondText) ==
    /\ ~isLoading
    /\ IF Accepted(firstText, secondText)
       THEN /\ handleEntrySubmit(Trim(firstText), Trim(secondText))
            /\ firstValue' = <<>>
            /\ secondValue' = IF entryMode = "double" THEN <<>> ELSE secondValue
            /\ UNCHANGED <<shownWarning, gestureVars>>
       ELSE SubmitRejected(Trim(firstText), Trim(secondText))

(***************************************************************************)
(* Taps on the bubbles.                                                    *)
(***************************************************************************)
\* onTitlePress
TitlePress ==
    /\ SetEditing("single", "title", Null, Null, FALSE)
    /\ ResetKeyEffect("title", pendingResetKeyIncrementRef)
    /\ UNCHANGED <<lift, isLoading, allLifts, shouldFocusSetAfterMovementSubmit,
                   storeVars, pending, isTransitioningToSetRef>>
    /\ UNCHANGED <<mutated, route>>
    /\ UNCHANGED footerVars
    /\ ScrollEffect(FALSE)
    /\ UNCHANGED syncVars

\* onMovementPress of movement index
MovementPress(index) ==
    /\ index \in 0..(Len(lift.movements) - 1)
    /\ SetEditing("single", "movementName", Some(index), Null, FALSE)
    /\ ResetKeyEffect("movementName", pendingResetKeyIncrementRef)
    /\ UNCHANGED <<lift, isLoading, allLifts, shouldFocusSetAfterMovementSubmit,
                   storeVars, pending, isTransitioningToSetRef>>
    /\ UNCHANGED <<mutated, route>>
    /\ UNCHANGED footerVars
    /\ ScrollEffect(FALSE)
    /\ UNCHANGED syncVars

\* onSetPress of set setIdx of movement index
SetPress(index, setIdx) ==
    /\ index \in 0..(Len(lift.movements) - 1)
    /\ setIdx \in 0..(Len(lift.movements[index + 1].sets) - 1)
    /\ SetEditing("double", "set", Some(index), Some(setIdx), FALSE)
    /\ ResetKeyEffect("set", pendingResetKeyIncrementRef)
    /\ UNCHANGED <<lift, isLoading, allLifts, shouldFocusSetAfterMovementSubmit,
                   storeVars, pending, isTransitioningToSetRef>>
    /\ UNCHANGED <<mutated, route>>
    /\ UNCHANGED footerVars
    /\ ScrollEffect(FALSE)
    /\ UNCHANGED syncVars

\* onEmptyLinePress of movement index; hasTextToClear is
\* firstInputValue.trim().length > 0, and the field is empty while nothing is edited
EmptyLinePress(index, hasTextToClear) ==
    /\ index \in 0..(Len(lift.movements) - 1)
    /\ hasTextToClear => editingTarget # "none"
    /\ isTransitioningToSetRef' = TRUE
    /\ SetEditing("double", "set", Some(index),
                  Some(Len(lift.movements[index + 1].sets)), FALSE)
    /\ IF hasTextToClear
       THEN ResetKeyEffect("set", TRUE)
       ELSE /\ transitionTimers < MaxTimers
            /\ transitionTimers' = transitionTimers + 1
            /\ pendingResetKeyIncrementRef' = pendingResetKeyIncrementRef
    /\ UNCHANGED <<lift, isLoading, allLifts, shouldFocusSetAfterMovementSubmit,
                   storeVars, pending>>
    /\ UNCHANGED <<mutated, route>>
    /\ UNCHANGED footerVars
    /\ ScrollEffect(FALSE)
    /\ UNCHANGED syncVars

\* the empty line after the movements, or the new-movement bubble
NewMovementPress ==
    /\ Trim(lift.title) # <<>>
    /\ SetEditing("single", "movementName", Some(NEW_MOVEMENT_INDEX), Null, TRUE)
    /\ ResetKeyEffect("movementName", pendingResetKeyIncrementRef)
    /\ UNCHANGED <<lift, isLoading, allLifts, shouldFocusSetAfterMovementSubmit,
                   storeVars, pending, isTransitioningToSetRef>>
    /\ UNCHANGED <<mutated, route>>
    /\ UNCHANGED footerVars
    /\ ScrollEffect(FALSE)
    /\ UNCHANGED syncVars

(***************************************************************************)
(* Long presses.  The alert is modal and Cancel changes nothing the model  *)
(* keeps, so a long press followed by Delete is one action.                *)
(***************************************************************************)
\* the editing state after Delete of a movement is confirmed
deleteMovementEditing(index) ==
    /\ isAddingNewMovement' = FALSE
    /\ UNCHANGED <<entryMode, editingTarget, editingMovementIndex, editingSetIndex>>

\* handleMovementLongPress(index), then Delete
DeleteMovement(index) ==
    /\ index \in 0..(Len(lift.movements) - 1)
    /\ CanSave
    /\ lift' = deleteMovementNewLift(lift, index)
    /\ pending' = IssueSave(pending, lift')
    /\ deleteMovementEditing(index)
    /\ ResetKeyEffect(editingTarget', pendingResetKeyIncrementRef)
    /\ allLifts' = Put(allLifts, lift'.id, lift')
    /\ UNCHANGED <<isLoading, shouldFocusSetAfterMovementSubmit, storeVars,
                   isTransitioningToSetRef>>
    /\ mutated' = (mutated \/ lift' # lift)
    /\ UNCHANGED route
    /\ UNCHANGED footerVars
    /\ ScrollEffect(TRUE)
    /\ UNCHANGED syncVars

\* the editing state after Delete of a set is confirmed
deleteSetEditing(movementIndex, setIndex) ==
    /\ isAddingNewMovement' = FALSE
    /\ UNCHANGED <<entryMode, editingTarget, editingMovementIndex, editingSetIndex>>

\* handleSetLongPress(movementIndex, setIndex), then Delete
DeleteSet(movementIndex, setIndex) ==
    /\ movementIndex \in 0..(Len(lift.movements) - 1)
    /\ setIndex \in 0..(Len(lift.movements[movementIndex + 1].sets) - 1)
    /\ CanSave
    /\ lift' = deleteSetNewLift(lift, movementIndex, setIndex)
    /\ pending' = IssueSave(pending, lift')
    /\ deleteSetEditing(movementIndex, setIndex)
    /\ ResetKeyEffect(editingTarget', pendingResetKeyIncrementRef)
    /\ allLifts' = Put(allLifts, lift'.id, lift')
    /\ UNCHANGED <<isLoading, shouldFocusSetAfterMovementSubmit, storeVars,
                   isTransitioningToSetRef>>
    /\ mutated' = (mutated \/ lift' # lift)
    /\ UNCHANGED route
    /\ UNCHANGED footerVars
    /\ ScrollEffect(TRUE)
    /\ UNCHANGED syncVars

(***************************************************************************)
(* Keyboard, focus, date picker.                                           *)
(***************************************************************************)
\* a variant that resets the editing state on every dismissal
handleKeyboardDismissAlways ==
    /\ ~isLoading
    /\ SetEditing("single", "none", Null, Null, FALSE)
    /\ ResetKeyEffect("none", pendingResetKeyIncrementRef)
    /\ firstValue' = <<>>
    /\ secondValue' = <<>>
    /\ UNCHANGED <<lift, isLoading, allLifts, shouldFocusSetAfterMovementSubmit,
                   storeVars, pending, isTransitioningToSetRef>>
    /\ UNCHANGED <<mutated, shownWarning, gestureVars, route>>
    /\ ScrollEffect(FALSE)
    /\ UNCHANGED syncVars

\* keyboardWillHide listener of the footer, then handleKeyboardDismiss
handleKeyboardDismiss ==
    /\ ~isLoading
    /\ IF ~isTransitioningToSetRef
       THEN /\ SetEditing("single", "none", Null, Null, FALSE)
            /\ ResetKeyEffect("none", pendingResetKeyIncrementRef)
       ELSE UNCHANGED <<editVars, pendingResetKeyIncrementRef, transitionTimers>>
    /\ firstValue' = <<>>
    /\ secondValue' = <<>>
    /\ UNCHANGED <<lift, isLoading, allLifts, shouldFocusSetAfterMovementSubmit,
                   storeVars, pending, isTransitioningToSetRef>>
    /\ UNCHANGED <<mutated, shownWarning, gestureVars, route>>
    /\ ScrollEffect(FALSE)
    /\ UNCHANGED syncVars

\* onFocus of the first field
shouldShowMovementBubble ==
    /\ Trim(lift.title) # <<>>
    /\ ~(editingMovementIndex # Null /\ Val(editingMovementIndex) >= 0)
    /\ \/ editingTarget = "none"
       \/ editingTarget = "movementName" /\ ~isAddingNewMovement

\* handleEntryFooterFocus gets past its early returns and shows the bubble
focusShowsBubble ==
    /\ ~isTransitioningToSetRef
    /\ editingTarget # "set"
    /\ shouldShowMovementBubble
    /\ ~isAddingNewMovement

handleEntryFooterFocus ==
    /\ ~isLoading
    /\ IF focusShowsBubble
       THEN /\ SetEditing("single", "movementName", Some(NEW_MOVEMENT_INDEX), Null, TRUE)
            /\ ResetKeyEffect("movementName", pendingResetKeyIncrementRef)
       ELSE UNCHANGED <<editVars, pendingResetKeyIncrementRef, transitionTimers>>
    /\ UNCHANGED <<lift, isLoading, allLifts, shouldFocusSetAfterMovementSubmit,
                   storeVars, pending, isTransitioningToSetRef>>
    /\ UNCHANGED <<mutated, route>>
    /\ UNCHANGED footerVars
    /\ ScrollEffect(FALSE)
    /\ UNCHANGED syncVars

\* DateTimePicker onChange
handleDateChange(dateString) ==
    /\ CanSave
    /\ lift' = [lift EXCEPT !.date = dateString]
    /\ pending' = IssueSave(pending, lift')
    /\ UNCHANGED <<editVars, isLoading, allLifts, shouldFocusSetAfterMovementSubmit,
                   storeVars, refVars>>
    /\ UNCHANGED <<mutated, route>>
    /\ UNCHANGED footerVars
    /\ UNCHANGED scrollVars
    /\ UNCHANGED syncVars

(***************************************************************************)
(* Timers.                                                                 *)
(***************************************************************************)
\* setTimeout(() => { isTransitioningToSetRef.current = false }, 100)
TransitionTimerFires ==
    /\ transitionTimers > 0
    /\ transitionTimers' = transitionTimers - 1
    /\ isTransitioningToSetRef' = FALSE
    /\ UNCHANGED <<lift, editVars, isLoading, allLifts,
                   shouldFocusSetAfterMovementSubmit, storeVars, pending,
                   pendingResetKeyIncrementRef>>
    /\ UNCHANGED <<mutated, route>>
    /\ UNCHANGED footerVars
    /\ UNCHANGED scrollVars
    /\ UNCHANGED syncVars

\* useEffect([shouldFocusSetAfterMovementSubmit]): reset after 300 ms
FocusSetFlagTimerFires ==
    /\ shouldFocusSetAfterMovementSubmit
    /\ shouldFocusSetAfterMovementSubmit' = FALSE
    /\ UNCHANGED <<lift, editVars, isLoading, allLifts, storeVars, pending,
                   refVars>>
    /\ UNCHANGED <<mutated, route>>
    /\ UNCHANGED footerVars
    /\ UNCHANGED scrollVars
    /\ UNCHANGED syncVars

(***************************************************************************)
(* The asynchronous steps of the store operations.                         *)
(***************************************************************************)
uiVars == <<lift, editVars, isLoading, shouldFocusSetAfterMovementSubmit,
            refVars>>

\* getLocalData of operation k: AsyncStorage.getItem answers.  A save replaces
\* the entry of its own lift whatever it read, so only the others are kept.
StoreRead(k) ==
    /\ k \in 1..Len(pending)
    /\ pending[k].phase = "start"
    /\ \E lifts \in getLocalData(store) :
          pending' = [pending EXCEPT
                        ![k].phase = "read",
                        ![k].snap = IF pending[k].kind = "save"
                                    THEN Without(lifts, pending[k].lift.id)
                                    ELSE lifts]
    /\ UNCHANGED <<uiVars, allLifts, storeVars>>
    /\ UNCHANGED <<mutated, route>>
    /\ UNCHANGED footerVars
    /\ UNCHANGED scrollVars
    /\ UNCHANGED syncVars

\* saveLiftLocally of operation k: AsyncStorage.setItem of the lifts it read
SaveWrite(k) ==
    /\ k \in 1..Len(pending)
    /\ pending[k].kind = "save"
    /\ pending[k].phase = "read"
    /\ store' = Put(pending[k].snap, pending[k].lift.id, pending[k].lift)
    /\ writeOrderBroken' =
          (writeOrderBroken \/
           \E j \in 1..(k - 1) :
               pending[j].kind \in {"save", "delete"} /\ pending[j].phase # "written")
    /\ pending' = [pending EXCEPT ![k].phase = "written"]
    /\ UNCHANGED <<uiVars, allLifts>>
    /\ UNCHANGED <<mutated, route>>
    /\ UNCHANGED footerVars
    /\ UNCHANGED scrollVars
    /\ UNCHANGED syncVars

\* saveLift of operation k resumes after the await: setAllLifts
SaveDone(k) ==
    /\ k \in 1..Len(pending)
    /\ pending[k].kind = "save"
    /\ route = "LiftEditor"
    /\ pending[k].phase = "written"
    /\ allLifts' = Put(allLifts, pending[k].lift.id, pending[k].lift)
    /\ pending' = RemoveOp(pending, k)
    /\ UNCHANGED <<uiVars, storeVars>>
    /\ UNCHANGED <<mutated, route>>
    /\ UNCHANGED footerVars
    /\ UNCHANGED scrollVars
    /\ UNCHANGED syncVars

\* loadAllLifts resumes: setAllLifts(liftsMap)
HydrateDone(k) ==
    /\ k \in 1..Len(pending)
    /\ pending[k].kind = "hydrate"
    /\ route = "LiftEditor"
    /\ pending[k].phase = "read"
    /\ allLifts' = pending[k].snap
    /\ pending' = RemoveOp(pending, k)
    /\ UNCHANGED <<uiVars, storeVars>>
    /\ UNCHANGED <<mutated, route>>
    /\ UNCHANGED footerVars
    /\ UNCHANGED scrollVars
    /\ UNCHANGED syncVars

\* loadLift: the date of a record that has none
updatedLiftData(liftData, liftId) ==
    [liftData EXCEPT !.date =
        IF liftData.date # "" THEN liftData.date
        ELSE IF LooksLikeDate(liftId) THEN liftId ELSE Today]

\* a variant that resumes a set entry only in the first movement
loadedEditingFirstMovement(l) ==
    LET hasTitle == Len(Trim(l.title)) > 0
        hasMovements == Len(l.movements) > 0
        lastMovementHasSets ==
            hasMovements /\ Len(l.movements[Len(l.movements)].sets) > 0
    IN  IF ~hasTitle
        THEN SetEditing("single", "title", Null, Null, FALSE)
        ELSE IF ~hasMovements
        THEN SetEditing("single", "movementName", Some(NEW_MOVEMENT_INDEX), Null, TRUE)
        ELSE IF ~lastMovementHasSets
        THEN SetEditing("double", "set", Some(0), Some(0), TRUE)
        ELSE SetEditing("single", "none", Null, Null, FALSE)

\* loadLift: the editing state a loaded lift opens in
loadedEditing(l) ==
    LET hasTitle == Len(Trim(l.title)) > 0
        hasMovements == Len(l.movements) > 0
        lastMovementHasSets ==
            hasMovements /\ Len(l.movements[Len(l.movements)].sets) > 0
    IN  IF ~hasTitle
        THEN SetEditing("single", "title", Null, Null, FALSE)
        ELSE IF ~hasMovements
        THEN SetEditing("single", "movementName", Some(NEW_MOVEMENT_INDEX), Null, TRUE)
        ELSE IF ~lastMovementHasSets
        THEN SetEditing("double", "set", Some(Len(l.movements) - 1), Some(0), FALSE)
        ELSE SetEditing("single", "none", Null, Null, FALSE)

\* loadLift resumes with what retrieveLift found
LoadDone(k) ==
    /\ k \in 1..Len(pending)
    /\ pending[k].kind = "load"
    /\ route = "LiftEditor"
    /\ pending[k].phase = "read"
    /\ \E found \in retrieveLift(pending[k].snap, pending[k].lift.id) :
          IF found = <<>>
          THEN UNCHANGED <<lift, editVars, allLifts, pendingResetKeyIncrementRef,
                           transitionTimers>>
          ELSE /\ lift' = updatedLiftData(found[1], pending[k].lift.id)
               /\ loadedEditing(lift')
               /\ ResetKeyEffect(editingTarget', pendingResetKeyIncrementRef)
               /\ allLifts' = Put(allLifts, lift'.id, lift')
    /\ isLoading' = FALSE
    /\ pending' = RemoveOp(pending, k)
    /\ UNCHANGED <<shouldFocusSetAfterMovementSubmit, storeVars,
                   isTransitioningToSetRef>>
    /\ UNCHANGED <<mutated, route>>
    /\ UNCHANGED footerVars
    /\ ScrollEffect(lift' # lift)
    /\ UNCHANGED syncVars

(***************************************************************************)
(* Deleting the whole lift.  The alert is modal and Cancel changes nothing, *)
(* so the press of the trash button followed by Delete is one action.      *)
(***************************************************************************)
NumDeletes(ops) == Cardinality({ k \in 1..Len(ops) : ops[k].kind = "delete" })

\* handleDeleteLift, Delete pressed: deleteLiftLocally(lift.id) is called
handleDeleteLift ==
    /\ route = "LiftEditor"
    /\ NumDeletes(pending) < MaxDeletes
    /\ pending' = Append(pending, Op("delete", MkLift(lift.id, "", <<>>, <<>>), "start", NoStore))
    /\ UNCHANGED <<uiVars, allLifts, storeVars, route>>
    /\ UNCHANGED mutated
    /\ UNCHANGED footerVars
    /\ UNCHANGED scrollVars
    /\ UNCHANGED syncVars

\* deleteLiftLocally: the object it leaves in the store; nothing is written
\* when the lifts it read do not hold the id
deletedLifts(lifts, liftId, stored) ==
    IF liftId \in DOMAIN lifts THEN Without(lifts, liftId) ELSE stored

\* deleteLiftLocally of operation k: AsyncStorage.setItem, if the id was read
DeleteWrite(k) ==
    /\ k \in 1..Len(pending)
    /\ pending[k].kind = "delete"
    /\ pending[k].phase = "read"
    /\ store' = deletedLifts(pending[k].snap, pending[k].lift.id, store)
    /\ writeOrderBroken' =
          (writeOrderBroken \/
           \E j \in 1..(k - 1) :
               pending[j].kind \in {"save", "delete"} /\ pending[j].phase # "written")
    /\ pending' = [pending EXCEPT ![k].phase = "written"]
    /\ UNCHANGED <<uiVars, allLifts, route>>
    /\ UNCHANGED mutated
    /\ UNCHANGED footerVars
    /\ UNCHANGED scrollVars
    /\ UNCHANGED syncVars

\* the Delete handler resumes after the await: setAllLifts, navigate('LiftList')
DeleteDone(k) ==
    /\ k \in 1..Len(pending)
    /\ pending[k].kind = "delete"
    /\ pending[k].phase = "written"
    /\ allLifts' = IF route = "LiftEditor"
                   THEN Without(allLifts, pending[k].lift.id)
                   ELSE allLifts
    /\ route' = "LiftList"
    /\ pending' = RemoveOp(pending, k)
    /\ UNCHANGED <<uiVars, storeVars>>
    /\ UNCHANGED mutated
    /\ UNCHANGED footerVars
    /\ ScrollUnmount
    /\ UNCHANGED syncVars

\* an operation of the editor resumes after the editor was left: its state
\* setters have no effect on the unmounted screen
ResumeUnmounted(k) ==
    /\ k \in 1..Len(pending)
    /\ route = "LiftList"
    /\ \/ pending[k].kind = "save" /\ pending[k].phase = "written"
       \/ pending[k].kind \in {"hydrate", "load"} /\ pending[k].phase = "read"
    /\ pending' = RemoveOp(pending, k)
    /\ UNCHANGED <<uiVars, allLifts, storeVars, route>>
    /\ UNCHANGED mutated
    /\ UNCHANGED footerVars
    /\ UNCHANGED scrollVars
    /\ UNCHANGED syncVars

(***************************************************************************)
(* Opening the editor.                                                     *)
(***************************************************************************)
StoredFull ==
    MkLift(OpenId, "2024-01-02", <<"A">>,
           << MkMovement(<<"A">>, << MkSet(<<"5">>, <<"5">>) >>) >>)
\* records of an older version: no date; a last movement without sets
StoredTitleOnly == MkLift(OpenId, "", <<"A">>, <<>>)
StoredLegacy == MkLift(OpenId, "", <<"A">>, << MkMovement(<<"A">>, <<>>) >>)
\* a lift whose date was picked and saved before any title was entered
StoredUntitled == MkLift(OpenId, "2024-01-02", <<>>, <<>>)

\* route.params.liftId ("" when absent) and the stored lifts when the editor opens
Openings ==
    { [liftId |-> "", lifts |-> NoStore],
      [liftId |-> OpenId, lifts |-> NoStore],
      [liftId |-> OpenId, lifts |-> (OpenId :> StoredFull)],
      [liftId |-> OpenId, lifts |-> (OpenId :> StoredTitleOnly)],
      [liftId |-> OpenId, lifts |-> (OpenId :> StoredLegacy)],
      [liftId |-> OpenId, lifts |-> (OpenId :> StoredUntitled)] }

\* the state after the first render and its mount effects, for an opening
Opened(o) ==
    /\ store = o.lifts
    /\ lift = MkLift(IF o.liftId # "" THEN o.liftId ELSE NewId, Today, <<>>, <<>>)
    /\ isLoading = (o.liftId # "")
    /\ entryMode = "single"
    /\ editingTarget = IF o.liftId # "" THEN "none" ELSE "title"
    /\ editingMovementIndex = Null
    /\ editingSetIndex = Null
    /\ isAddingNewMovement = FALSE
    /\ allLifts = NoStore
    /\ shouldFocusSetAfterMovementSubmit = FALSE
    /\ pending =
          << Op("hydrate", NoLift, "start", NoStore) >> \o
          (IF o.liftId # ""
           THEN << Op("load", MkLift(o.liftId, "", <<>>, <<>>), "start", NoStore) >>
           ELSE << >>)
    /\ writeOrderBroken = FALSE
    /\ mutated = FALSE
    /\ isTransitioningToSetRef = FALSE
    /\ pendingResetKeyIncrementRef = FALSE
    /\ transitionTimers = 0
    /\ firstValue = <<>>
    /\ secondValue = <<>>
    /\ shownWarning = ""
    /\ hasTriggeredDismissRef = FALSE
    /\ gestureState = "UNDETERMINED"
    /\ firesInGesture = 0
    /\ route = "LiftEditor"
    /\ titleLayoutRef = Null
    /\ movementLayoutsRef = [i \in LayoutIndices |-> Null]
    /\ setLayoutsRef = [key \in SetLayoutKeys |-> Null]
    /\ addSetLayoutsRef = [i \in LayoutIndices |-> Null]
    /\ scrollRetryTimeoutRef = Null
    /\ animationFrames = {}
    /\ lastScrollTo = IF o.liftId # "" THEN Null ELSE Some(0)
    /\ lastSyncItem = Null
    /\ now = ClockStart
    /\ syncCalls = <<>>
    /\ remoteWrites = <<>>

Init == \E o \in Openings : Opened(o)

(***************************************************************************)
(* The entry footer: typing, the warning timeout and the swipe gesture.    *)
(* The footer is rendered only when the editor is not loading.  The text   *)
(* the screen pre-fills through initialValues is text TypeFirst and        *)
(* TypeSecond can also put in the fields.                                  *)
(***************************************************************************)
DismissThreshold == 18
Translations == {10, 18, 19, 40}
GestureEndStates == {"END", "CANCELLED", "FAILED"}
GestureStates == {"ACTIVE"} \cup GestureEndStates

\* onChangeText of the first field: the text, and the warning is cleared
TypeFirst(text) ==
    /\ ~isLoading
    /\ text # firstValue
    /\ firstValue' = text
    /\ shownWarning' = ""
    /\ UNCHANGED <<screenVars, secondValue, gestureVars>>

\* onChangeText of the second field, rendered in double mode
TypeSecond(text) ==
    /\ ~isLoading
    /\ entryMode = "double"
    /\ text # secondValue
    /\ secondValue' = text
    /\ shownWarning' = ""
    /\ UNCHANGED <<screenVars, firstValue, gestureVars>>

\* the 2500 ms timeout of showWarningMessage
WarningTimerFires ==
    /\ shownWarning # ""
    /\ shownWarning' = ""
    /\ UNCHANGED <<screenVars, firstValue, secondValue, gestureVars>>

\* the pan gesture handler activates: a new gesture
GestureBegins ==
    /\ ~isLoading
    /\ gestureState = "UNDETERMINED"
    /\ gestureState' = "ACTIVE"
    /\ firesInGesture' = 0
    /\ UNCHANGED <<screenVars, firstValue, secondValue, shownWarning,
                   hasTriggeredDismissRef>>

\* a variant without the once-per-gesture test
dismissFiresEvery(translationY, triggered) == translationY > DismissThreshold

\* handleGestureEvent: the condition of the clear-and-dismiss
dismissFires(translationY, triggered) ==
    translationY > DismissThreshold /\ ~triggered

\* onGestureEvent of the active gesture
handleGestureEvent(translationY) ==
    /\ ~isLoading
    /\ gestureState = "ACTIVE"
    /\ IF dismissFires(translationY, hasTriggeredDismissRef)
       THEN /\ firesInGesture < MaxFires
            /\ hasTriggeredDismissRef' = TRUE
            /\ firstValue' = <<>>
            /\ secondValue' = <<>>
            /\ shownWarning' = ""
            /\ firesInGesture' = firesInGesture + 1
            /\ UNCHANGED gestureState
       ELSE UNCHANGED footerVars
    /\ UNCHANGED screenVars

\* onHandlerStateChange of the active gesture
handleGestureStateChange(state) ==
    /\ ~isLoading
    /\ gestureState = "ACTIVE"
    /\ IF state \in GestureEndStates
       THEN /\ hasTriggeredDismissRef' = FALSE
            /\ gestureState' = "UNDETERMINED"
       ELSE UNCHANGED <<hasTriggeredDismissRef, gestureState>>
    /\ UNCHANGED <<screenVars, firstValue, secondValue, shownWarning, firesInGesture>>

(***************************************************************************)
(* Every interleaving of the handlers, the timers and the store steps.     *)
(***************************************************************************)
\* what the user does on the editor screen
EditorEvent ==
    \/ \E f \in FirstInputs, s \in SecondInputs : Submit(f, s)
    \/ \E t \in FirstInputs : TypeFirst(t)
    \/ \E t \in SecondInputs : TypeSecond(t)
    \/ WarningTimerFires
    \/ GestureBegins
    \/ \E y \in Translations : handleGestureEvent(y)
    \/ \E g \in GestureStates : handleGestureStateChange(g)
    \/ TitlePress
    \/ \E i \in 0..(MaxMovements - 1) : MovementPress(i)
    \/ \E i \in 0..(MaxMovements - 1), si \in 0..(MaxSets - 1) : SetPress(i, si)
    \/ \E i \in 0..(MaxMovements - 1), t \in BOOLEAN : EmptyLinePress(i, t)
    \/ NewMovementPress
    \/ \E i \in 0..(MaxMovements - 1) : DeleteMovement(i)
    \/ \E i \in 0..(MaxMovements - 1), si \in 0..(MaxSets - 1) : DeleteSet(i, si)
    \/ handleKeyboardDismiss
    \/ handleEntryFooterFocus
    \/ \E d \in Dates : handleDateChange(d)
    \/ handleDeleteLift

Next ==
    \/ route = "LiftEditor" /\ EditorEvent
    \/ TransitionTimerFires
    \/ FocusSetFlagTimerFires
    \/ \E k \in 1..(MaxPending + 2) : StoreRead(k)
    \/ \E k \in 1..(MaxPending + 2) : SaveWrite(k)
    \/ \E k \in 1..(MaxPending + 2) : SaveDone(k)
    \/ \E k \in 1..(MaxPending + 2) : HydrateDone(k)
    \/ \E k \in 1..(MaxPending + 2) : LoadDone(k)
    \/ \E k \in 1..(MaxPending + 2) : DeleteWrite(k)
    \/ \E k \in 1..(MaxPending + 2) : DeleteDone(k)
    \/ \E k \in 1..(MaxPending + 2) : ResumeUnmounted(k)

Spec == Init /\ [][Next]_vars

(***************************************************************************)
(* The editing session: the same handlers, each running once the saves and *)
(* the hydration issued before it have completed.  The handlers read the   *)
(* store only through loadLift, whose steps stay free, so the editing      *)
(* states reached are those of Spec.  The date picker is left to           *)
(* SpecSaving: no handler reads the date.  The empty line is pressed with  *)
(* empty footer fields: text to clear only delays the timer that ends the  *)
(* transition, during which dismissals and focus events are ignored.       *)
(***************************************************************************)
QuietStore ==
    \A k \in 1..Len(pending) : pending[k].kind = "load"

NextEditing ==
    \/ QuietStore /\ \E f \in FirstInputs, s \in SecondInputs :
          Accepted(f, s) /\ Submit(f, s)
    \/ QuietStore /\ TitlePress
    \/ QuietStore /\ \E i \in 0..(MaxMovements - 1) : MovementPress(i)
    \/ QuietStore /\ \E i \in 0..(MaxMovements - 1), si \in 0..(MaxSets - 1) : SetPress(i, si)
    \/ QuietStore /\ \E i \in 0..(MaxMovements - 1) : EmptyLinePress(i, FALSE)
    \/ QuietStore /\ NewMovementPress
    \/ QuietStore /\ \E i \in 0..(MaxMovements - 1) : DeleteMovement(i)
    \/ QuietStore /\ \E i \in 0..(MaxMovements - 1), si \in 0..(MaxSets - 1) : DeleteSet(i, si)
    \/ QuietStore /\ handleKeyboardDismiss
    \/ QuietStore /\ handleEntryFooterFocus
    \/ TransitionTimerFires
    \/ FocusSetFlagTimerFires
    \/ \E k \in 1..(MaxPending + 2) : StoreRead(k)
    \/ \E k \in 1..(MaxPending + 2) : SaveWrite(k)
    \/ \E k \in 1..(MaxPending + 2) : SaveDone(k)
    \/ \E k \in 1..(MaxPending + 2) : HydrateDone(k)
    \/ \E k \in 1..(MaxPending + 2) : LoadDone(k)

SpecEditing == Init /\ [][NextEditing]_vars


(***************************************************************************)
(* Saving: the handlers that change the lift, the date picker and the taps *)
(* that select what a submit changes, with the store steps of up to        *)
(* MaxPending saves interleaved freely with them.  One name and one weight *)
(* are typed, and the date picked is another day than today: which write   *)
(* lands last does not depend on the text.                                 *)
(***************************************************************************)
SavingTexts == { <<>>, <<"A", " ">>, <<"A">>, <<"5">>, <<"0">> }

\* the lift stays within the bounds of the saving session
SavingBounded(l) ==
    /\ Len(l.movements) <= MaxSavingMovements
    /\ \A i \in 1..Len(l.movements) : Len(l.movements[i].sets) <= MaxSavingSets

NextSaving ==
    \/ \E f \in FirstInputs \cap SavingTexts, s \in SecondInputs :
          Accepted(f, s) /\ Submit(f, s) /\ SavingBounded(lift')
    \/ \E i \in 0..(MaxMovements - 1) : MovementPress(i)
    \/ \E i \in 0..(MaxMovements - 1), si \in 0..(MaxSets - 1) : SetPress(i, si)
    \/ \E i \in 0..(MaxMovements - 1) : DeleteMovement(i)
    \/ \E i \in 0..(MaxMovements - 1), si \in 0..(MaxSets - 1) : DeleteSet(i, si)
    \/ \E d \in Dates \ {Today} : handleDateChange(d)
    \/ FocusSetFlagTimerFires
    \/ \E k \in 1..(MaxPending + 2) : StoreRead(k)
    \/ \E k \in 1..(MaxPending + 2) : SaveWrite(k)
    \/ \E k \in 1..(MaxPending + 2) : SaveDone(k)
    \/ \E k \in 1..(MaxPending + 2) : HydrateDone(k)
    \/ \E k \in 1..(MaxPending + 2) : LoadDone(k)

SpecSaving == Init /\ [][NextSaving]_vars

(***************************************************************************)
(* The footer session: the user types into the fields, submits what the    *)
(* fields hold, swipes the entry surface down and dismisses the keyboard,  *)
(* on a lift within the bounds of the saving session.  As in the editing   *)
(* session each step runs once the saves issued before it have completed.  *)
(***************************************************************************)
FooterFirstTexts == { <<>>, <<" ">>, <<"A">>, <<"5">>, <<"0">> }
FooterSecondTexts == { <<>>, <<"5">>, <<"5", ".">> }

NextFooter ==
    \/ QuietStore /\ \E t \in FooterFirstTexts : TypeFirst(t)
    \/ QuietStore /\ \E t \in FooterSecondTexts : TypeSecond(t)
    \/ QuietStore /\ Submit(firstValue, secondValue) /\ SavingBounded(lift')
    \/ WarningTimerFires
    \/ QuietStore /\ GestureBegins
    \/ QuietStore /\ \E y \in Translations : handleGestureEvent(y)
    \/ QuietStore /\ \E g \in GestureStates : handleGestureStateChange(g)
    \/ QuietStore /\ handleKeyboardDismiss
    \/ QuietStore /\ handleEntryFooterFocus
    \/ QuietStore /\ TitlePress
    \/ QuietStore /\ \E i \in 0..(MaxSavingMovements - 1) : MovementPress(i)
    \/ QuietStore /\ \E i \in 0..(MaxSavingMovements - 1),
                        si \in 0..(MaxSavingSets - 1) : SetPress(i, si)
    \/ \E k \in 1..(MaxPending + 2) : StoreRead(k)
    \/ \E k \in 1..(MaxPending + 2) : SaveWrite(k)
    \/ \E k \in 1..(MaxPending + 2) : SaveDone(k)
    \/ \E k \in 1..(MaxPending + 2) : HydrateDone(k)
    \/ \E k \in 1..(MaxPending + 2) : LoadDone(k)

SpecFooter == Init /\ [][NextFooter]_vars

(***************************************************************************)
(* What the footer hands to handleEntrySubmit: trimmed, accepted text.     *)
(***************************************************************************)
SubmittedTexts == { Trim(f) : f \in TitleInputs \cup NameInputs } \ { <<>> }
SubmittedWeights == { Trim(w) : w \in { v \in WeightInputs : isValidNumber(Trim(v)) } }
SubmittedReps == { Trim(r) : r \in { v \in RepsInputs : isValidNumber(Trim(v)) } }
MovementIndices == 0..(MaxMovements - 1)

\* a save of l was issued by the step
SaveIssued(l) ==
    /\ Len(pending') = Len(pending) + 1
    /\ pending'[Len(pending')].kind = "save"
    /\ pending'[Len(pending')].phase = "start"
    /\ pending'[Len(pending')].lift.id = l.id
    /\ pending'[Len(pending')].lift.title = l.title

\* a save has just been issued and nothing of it has run yet
SaveJustIssued ==
    /\ pending # <<>>
    /\ pending[Len(pending)].kind = "save"
    /\ pending[Len(pending)].phase = "start"

\* the editing state is exactly this one
EditingIs(mode, target, movementIndex, setIndex, adding) ==
    /\ entryMode = mode
    /\ editingTarget = target
    /\ editingMovementIndex = movementIndex
    /\ editingSetIndex = setIndex
    /\ isAddingNewMovement = adding

EditingBecomes(mode, target, movementIndex, setIndex, adding) ==
    /\ entryMode' = mode
    /\ editingTarget' = target
    /\ editingMovementIndex' = movementIndex
    /\ editingSetIndex' = setIndex
    /\ isAddingNewMovement' = adding

\* C1: deleting the movement that is being edited leaves editingMovementIndex
\* null and editingTarget none.
C1_DeleteEditedMovementClearsEditing ==
    [][ \A i \in MovementIndices :
          ( /\ DeleteMovement(i)
            /\ editingTarget \in {"movementName", "set"}
            /\ editingMovementIndex = Some(i) )
          => ( editingMovementIndex' = Null /\ editingTarget' = "none" ) ]_vars

\* C2: whenever editingTarget is set, or movementName while not adding a new
\* movement, editingMovementIndex is an index of lift.movements.
C2_MovementIndexInBounds ==
    ( \/ editingTarget = "set"
      \/ editingTarget = "movementName" /\ ~isAddingNewMovement )
    => ( /\ editingMovementIndex # Null
         /\ Val(editingMovementIndex) >= 0
         /\ Val(editingMovementIndex) < Len(lift.movements) )

\* C3: a single submit while the title is edited or empty sets the title to
\* the submitted text, keeps the movements, issues a save and moves the
\* editing state to {single, movementName, -1, null, adding}.
C3_TitleSubmit ==
    [][ \A first \in SubmittedTexts :
          ( /\ entryMode = "single"
            /\ (editingTarget = "title" \/ lift.title = <<>>)
            /\ handleEntrySubmit(first, <<>>) )
          => ( /\ lift'.title = first
               /\ lift'.movements = lift.movements
               /\ lift'.id = lift.id
               /\ lift'.date = lift.date
               /\ SaveIssued(lift')
               /\ EditingBecomes("single", "movementName",
                                 Some(NEW_MOVEMENT_INDEX), Null, TRUE) ) ]_vars

\* the title of a lift that has movements has just been submitted
C3_Witness ==
    /\ SaveJustIssued
    /\ EditingIs("single", "movementName", Some(NEW_MOVEMENT_INDEX), Null, TRUE)
    /\ lift.movements # <<>>
    /\ pending[Len(pending)].lift.title = lift.title
    /\ lift.title # <<>>

\* C4: a movement name submitted while adding a new movement is appended as
\* {name, sets: []}, the existing movements stay, the editing state becomes
\* {double, set, previous length, 0, not adding} and the focus flag is raised.
C4_NewMovementSubmit ==
    [][ \A first \in SubmittedTexts :
          ( /\ entryMode = "single"
            /\ editingTarget = "movementName"
            /\ isAddingNewMovement
            /\ lift.title # <<>>
            /\ handleEntrySubmit(first, <<>>) )
          => ( /\ lift'.movements = Append(lift.movements, MkMovement(first, <<>>))
               /\ lift'.title = lift.title
               /\ lift'.id = lift.id
               /\ lift'.date = lift.date
               /\ EditingBecomes("double", "set", Some(Len(lift.movements)),
                                 Some(0), FALSE)
               /\ shouldFocusSetAfterMovementSubmit' ) ]_vars

\* a second movement has just been appended behind one that has sets
C4_Witness ==
    /\ shouldFocusSetAfterMovementSubmit
    /\ EditingIs("double", "set", Some(1), Some(0), FALSE)
    /\ Len(lift.movements) = 2
    /\ lift.movements[1].sets # <<>>
    /\ lift.movements[2].sets = <<>>
    /\ lift.movements[2].name # lift.movements[1].name

\* the lift holds the movement the editing state points at
EditsMovement(i) ==
    /\ editingMovementIndex = Some(i)
    /\ i < Len(lift.movements)

\* C5: a valid pair submitted while the set target points behind the last set
\* of the targeted movement is appended as one set; the other movements and
\* the earlier sets stay, a save is issued, and the state stays double/set
\* with editingSetIndex at the new sets length.
C5_AppendSet ==
    [][ \A w \in SubmittedWeights, r \in SubmittedReps, i \in MovementIndices :
          ( /\ entryMode = "double"
            /\ editingTarget = "set"
            /\ EditsMovement(i)
            /\ editingSetIndex = Some(Len(lift.movements[i + 1].sets))
            /\ handleEntrySubmit(w, r) )
          => ( /\ lift'.movements =
                     [lift.movements EXCEPT ![i + 1].sets = Append(@, MkSet(w, r))]
               /\ lift'.title = lift.title
               /\ lift'.id = lift.id
               /\ lift'.date = lift.date
               /\ SaveIssued(lift')
               /\ entryMode' = "double"
               /\ editingTarget' = "set"
               /\ editingMovementIndex' = Some(i)
               /\ editingSetIndex' = Some(Len(lift.movements[i + 1].sets) + 1) ) ]_vars

\* the store still holds the first movement with one set; a different second
\* set has just been appended to it
C5_Witness ==
    /\ SaveJustIssued
    /\ entryMode = "double"
    /\ editingTarget = "set"
    /\ editingMovementIndex = Some(0)
    /\ editingSetIndex = Some(2)
    /\ lift.id \in DOMAIN store
    /\ Len(lift.movements) >= 1
    /\ Len(store[lift.id].movements) >= 1
    /\ Len(lift.movements[1].sets) = 2
    /\ store[lift.id].movements[1].sets = << lift.movements[1].sets[1] >>
    /\ lift.movements[1].sets[2] # lift.movements[1].sets[1]

\* C6: a valid pair submitted while an existing set is edited replaces that
\* set only; the number of sets, the other sets and the other movements stay,
\* a save is issued, and the state stays double/set on the same movement with
\* editingSetIndex at that movement's sets length.
C6_EditSet ==
    [][ \A w \in SubmittedWeights, r \in SubmittedReps, i \in MovementIndices,
           k \in 0..(MaxSets - 1) :
          ( /\ entryMode = "double"
            /\ editingTarget = "set"
            /\ EditsMovement(i)
            /\ editingSetIndex = Some(k)
            /\ k < Len(lift.movements[i + 1].sets)
            /\ handleEntrySubmit(w, r) )
          => ( /\ lift'.movements =
                     [lift.movements EXCEPT ![i + 1].sets[k + 1] = MkSet(w, r)]
               /\ lift'.title = lift.title
               /\ lift'.id = lift.id
               /\ lift'.date = lift.date
               /\ SaveIssued(lift')
               /\ entryMode' = "double"
               /\ editingTarget' = "set"
               /\ editingMovementIndex' = Some(i)
               /\ editingSetIndex' = Some(Len(lift.movements[i + 1].sets)) ) ]_vars

\* the store still holds the first movement with its two sets; the first of
\* them has just been replaced
C6_Witness ==
    /\ SaveJustIssued
    /\ entryMode = "double"
    /\ editingTarget = "set"
    /\ editingMovementIndex = Some(0)
    /\ editingSetIndex = Some(2)
    /\ lift.id \in DOMAIN store
    /\ Len(lift.movements) >= 1
    /\ Len(store[lift.id].movements) >= 1
    /\ Len(lift.movements[1].sets) = 2
    /\ Len(store[lift.id].movements[1].sets) = 2
    /\ store[lift.id].movements[1].sets[1] # lift.movements[1].sets[1]
    /\ store[lift.id].movements[1].sets[2] = lift.movements[1].sets[2]

\* C7: a single submit while an existing movement's name is edited replaces
\* that name only; its sets, the number of movements and the other movements
\* stay, a save is issued, and the editing state becomes
\* {single, none, null, null, not adding}.
C7_RenameMovement ==
    [][ \A first \in SubmittedTexts, i \in MovementIndices :
          ( /\ entryMode = "single"
            /\ editingTarget = "movementName"
            /\ EditsMovement(i)
            /\ ~isAddingNewMovement
            /\ handleEntrySubmit(first, <<>>) )
          => ( /\ lift'.movements = [lift.movements EXCEPT ![i + 1].name = first]
               /\ lift'.title = lift.title
               /\ lift'.id = lift.id
               /\ lift'.date = lift.date
               /\ SaveIssued(lift')
               /\ EditingBecomes("single", "none", Null, Null, FALSE) ) ]_vars

\* the store still holds the old name of the second of two movements
C7_Witness ==
    /\ SaveJustIssued
    /\ EditingIs("single", "none", Null, Null, FALSE)
    /\ lift.id \in DOMAIN store
    /\ Len(lift.movements) = 2
    /\ Len(store[lift.id].movements) = 2
    /\ store[lift.id].movements[1] = lift.movements[1]
    /\ store[lift.id].movements[2].sets = lift.movements[2].sets
    /\ store[lift.id].movements[2].name # lift.movements[2].name
    /\ lift.movements[1].name # lift.movements[2].name

\* the step renames a movement or replaces an existing set
RenamesOrEditsSet(second) ==
    \/ Branch(second) = "rename"
    \/ /\ Branch(second) = "set"
       /\ editingTarget = "set"
       /\ \E m \in { TargetedMovement(lift, editingMovementIndex) } :
             m # <<>> /\ HasSetAt(m[1], editingSetIndex)

\* C8: the same rename, or the same weight and reps for the same existing
\* set, applied again to the same movement and set index yields the same lift.
C8_SameTargetIdempotent ==
    [][ \A first \in SubmittedTexts \cup SubmittedWeights,
           second \in { <<>> } \cup SubmittedReps :
          ( RenamesOrEditsSet(second) /\ handleEntrySubmit(first, second) )
          => entrySubmitLift(lift', entryMode, editingTarget, editingMovementIndex,
                             editingSetIndex, isAddingNewMovement, first, second)
               = lift' ]_vars

\* the second set of the second movement has just been replaced
C8_Witness ==
    /\ SaveJustIssued
    /\ editingTarget = "set"
    /\ editingMovementIndex = Some(1)
    /\ editingSetIndex = Some(2)
    /\ lift.id \in DOMAIN store
    /\ Len(lift.movements) = 2
    /\ Len(store[lift.id].movements) = 2
    /\ store[lift.id].movements[1] = lift.movements[1]
    /\ Len(lift.movements[2].sets) = 2
    /\ Len(store[lift.id].movements[2].sets) = 2
    /\ store[lift.id].movements[2].sets[1] = lift.movements[2].sets[1]
    /\ store[lift.id].movements[2].sets[2] # lift.movements[2].sets[2]

\* C8 as stated: the same rename or set submitted a second time, in the
\* editing state the first submit left, yields the same lift again.
C8_SecondSubmitSameLift ==
    [][ \A first \in SubmittedTexts \cup SubmittedWeights,
           second \in { <<>> } \cup SubmittedReps :
          ( /\ Branch(second) \in {"rename", "set"}
            /\ handleEntrySubmit(first, second) )
          => entrySubmitLift(lift', entryMode', editingTarget', editingMovementIndex',
                             editingSetIndex', isAddingNewMovement', first, second)
               = lift' ]_vars

\* every save issued has written
WritesCompleted ==
    \A k \in 1..Len(pending) :
        pending[k].kind = "save" => pending[k].phase = "written"

\* no movement without sets, and a date
IsNormalized(l) ==
    /\ l.date # ""
    /\ \A i \in 1..Len(l.movements) : Len(l.movements[i].sets) > 0

\* C9: every lift value the editor writes to the store has a non-empty date
\* and no movement without sets.
C9_WrittenLiftNormalized ==
    [][ \A k \in 1..(MaxPending + 2) :
          SaveWrite(k) => IsNormalized(store'[pending[k].lift.id]) ]_vars

\* a set delete has left a movement without sets in memory (and in the
\* cache), and the save it issued has written the lift without that movement
C9_Witness ==
    /\ lift.id = NewId
    /\ \E i \in 1..Len(lift.movements) : lift.movements[i].sets = <<>>
    /\ NewId \in DOMAIN allLifts
    /\ allLifts[NewId] = lift
    /\ WritesCompleted
    /\ ~writeOrderBroken
    /\ \E k \in 1..Len(pending) : pending[k].kind = "save"
    /\ NewId \in DOMAIN store
    /\ store[NewId].movements = <<>>
    /\ store[NewId].title = lift.title

\* C10: after a mutation of the lift, once the issued writes have completed
\* in issue order, the store entry of lift.id is the lift in memory with the
\* date filled and the movements without sets removed.
C10_StoreEqualsNormalizedLift ==
    ( mutated /\ WritesCompleted /\ ~writeOrderBroken )
    => ( /\ lift.id \in DOMAIN store
         /\ store[lift.id] = liftWithDate(lift) )

(***************************************************************************)
(* The unhurried editing session: the editing session with both kinds of   *)
(* tap on an empty line, the field holding text or not, in which the user  *)
(* acts only after the 100 ms timeouts that are pending have fired.        *)
(***************************************************************************)
Settled == QuietStore /\ transitionTimers = 0

NextSettled ==
    \/ Settled /\ \E f \in FirstInputs, s \in SecondInputs :
          Accepted(f, s) /\ Submit(f, s) /\ SavingBounded(lift')
    \/ Settled /\ TitlePress
    \/ Settled /\ \E i \in 0..(MaxMovements - 1) : MovementPress(i)
    \/ Settled /\ \E i \in 0..(MaxMovements - 1), si \in 0..(MaxSets - 1) : SetPress(i, si)
    \/ Settled /\ \E i \in 0..(MaxMovements - 1), t \in BOOLEAN : EmptyLinePress(i, t)
    \/ Settled /\ NewMovementPress
    \/ Settled /\ \E i \in 0..(MaxMovements - 1) : DeleteMovement(i)
    \/ Settled /\ \E i \in 0..(MaxMovements - 1), si \in 0..(MaxSets - 1) : DeleteSet(i, si)
    \/ Settled /\ handleKeyboardDismiss
    \/ Settled /\ handleEntryFooterFocus
    \/ TransitionTimerFires
    \/ FocusSetFlagTimerFires
    \/ \E k \in 1..(MaxPending + 2) : StoreRead(k)
    \/ \E k \in 1..(MaxPending + 2) : SaveWrite(k)
    \/ \E k \in 1..(MaxPending + 2) : SaveDone(k)
    \/ \E k \in 1..(MaxPending + 2) : HydrateDone(k)
    \/ \E k \in 1..(MaxPending + 2) : LoadDone(k)

SpecSettled == Init /\ [][NextSettled]_vars

(***************************************************************************)
(* The store session: the editing session on a lift within the bounds of   *)
(* the saving session, with the date picker, opened over stores that hold  *)
(* entries of the older scheme: keyed by date, with or without an id, one  *)
(* of them filed under the id of the opened lift.                          *)
(***************************************************************************)
OtherId == "1500000000000"
LegacyOther == MkLift(OtherId, "2024-01-01", <<"B">>, <<>>)
LegacyNoId ==
    MkLift("", "2024-01-02", <<"B">>,
           << MkMovement(<<"B">>, << MkSet(<<"5">>, <<"5">>) >>) >>)

LegacyStores ==
    { ("2024-01-02" :> StoredFull),
      ("2024-01-02" :> StoredFull) @@ (OpenId :> StoredTitleOnly),
      ("2024-01-02" :> LegacyNoId),
      ("2024-01-02" :> LegacyNoId) @@ (OpenId :> StoredFull),
      ("2024-01-01" :> LegacyOther) @@ (OpenId :> StoredLegacy) }

LegacyOpenings ==
    { [liftId |-> i, lifts |-> st] : i \in {"", OpenId}, st \in LegacyStores }

InitStore == \E o \in LegacyOpenings : Opened(o)

NextStore ==
    \/ QuietStore /\ \E f \in FirstInputs \cap SavingTexts, s \in SecondInputs :
          Accepted(f, s) /\ Submit(f, s) /\ SavingBounded(lift')
    \/ QuietStore /\ \E i \in 0..(MaxSavingMovements - 1) : MovementPress(i)
    \/ QuietStore /\ \E i \in 0..(MaxSavingMovements - 1),
                        si \in 0..(MaxSavingSets - 1) : SetPress(i, si)
    \/ QuietStore /\ \E i \in 0..(MaxSavingMovements - 1) : DeleteMovement(i)
    \/ QuietStore /\ \E i \in 0..(MaxSavingMovements - 1),
                        si \in 0..(MaxSavingSets - 1) : DeleteSet(i, si)
    \/ QuietStore /\ \E d \in Dates : handleDateChange(d)
    \/ FocusSetFlagTimerFires
    \/ \E k \in 1..(MaxPending + 2) : StoreRead(k)
    \/ \E k \in 1..(MaxPending + 2) : SaveWrite(k)
    \/ \E k \in 1..(MaxPending + 2) : SaveDone(k)
    \/ \E k \in 1..(MaxPending + 2) : HydrateDone(k)
    \/ \E k \in 1..(MaxPending + 2) : LoadDone(k)

SpecStore == InitStore /\ [][NextStore]_vars

(***************************************************************************)
(* The delete session: titles, movement names and sets are submitted and   *)
(* the whole lift is deleted, with the store steps of the saves, of the    *)
(* delete and of the mount reads interleaved freely.                       *)
(***************************************************************************)
Mounted == route = "LiftEditor"

NextDelete ==
    \/ Mounted /\ \E f \in FirstInputs \cap SavingTexts, s \in SecondInputs :
          Accepted(f, s) /\ Submit(f, s) /\ SavingBounded(lift')
    \/ Mounted /\ handleDeleteLift
    \/ FocusSetFlagTimerFires
    \/ \E k \in 1..(MaxPending + 3) : StoreRead(k)
    \/ \E k \in 1..(MaxPending + 3) : SaveWrite(k)
    \/ \E k \in 1..(MaxPending + 3) : SaveDone(k)
    \/ \E k \in 1..(MaxPending + 3) : HydrateDone(k)
    \/ \E k \in 1..(MaxPending + 3) : LoadDone(k)
    \/ \E k \in 1..(MaxPending + 3) : DeleteWrite(k)
    \/ \E k \in 1..(MaxPending + 3) : DeleteDone(k)
    \/ \E k \in 1..(MaxPending + 3) : ResumeUnmounted(k)

SpecDelete == Init /\ [][NextDelete]_vars

(***************************************************************************)
(* The number check: the editor is at a set entry (it opened a lift whose  *)
(* last movement has no sets, or a movement was just added), every text of *)
(* up to MaxTextLen characters is typed as the weight, and the pair is     *)
(* submitted.                                                              *)
(***************************************************************************)
NumberChars == Digits \cup {".", "-"} \cup WhiteSpace

RECURSIVE TextsOfLen(_)
TextsOfLen(n) ==
    IF n = 0 THEN { <<>> }
    ELSE { Append(t, c) : t \in TextsOfLen(n - 1), c \in NumberChars }

NumberTexts == UNION { TextsOfLen(n) : n \in 0..MaxTextLen }

NextNumber ==
    \/ QuietStore /\ editingTarget = "set"
                  /\ \E w \in NumberTexts : TypeFirst(w)
    \/ QuietStore /\ editingTarget = "set"
                  /\ \E r \in RepsInputs : TypeSecond(r)
    \/ QuietStore /\ editingTarget = "set"
                  /\ Submit(firstValue, secondValue) /\ SavingBounded(lift')
    \/ WarningTimerFires
    \/ \E k \in 1..(MaxPending + 2) : StoreRead(k)
    \/ \E k \in 1..(MaxPending + 2) : SaveWrite(k)
    \/ \E k \in 1..(MaxPending + 2) : SaveDone(k)
    \/ \E k \in 1..(MaxPending + 2) : HydrateDone(k)
    \/ \E k \in 1..(MaxPending + 2) : LoadDone(k)

SpecNumber == Init /\ [][NextNumber]_vars

(***************************************************************************)
(* C11 - C20.                                                              *)
(***************************************************************************)
\* the cases the footer rejects: nothing typed in single mode; in double
\* mode a missing weight or reps, or one that is not a valid positive number
RejectedInput ==
    IF entryMode = "single"
    THEN Trim(firstValue) = <<>>
    ELSE \/ Trim(firstValue) = <<>>
         \/ Trim(secondValue) = <<>>
         \/ ~isValidNumber(Trim(firstValue))
         \/ ~isValidNumber(Trim(secondValue))

\* every movement has a name and every set a valid weight and valid reps
WellFormedEntries(l) ==
    \A i \in 1..Len(l.movements) :
        /\ l.movements[i].name # <<>>
        /\ \A k \in 1..Len(l.movements[i].sets) :
              /\ isValidNumber(l.movements[i].sets[k].weight)
              /\ isValidNumber(l.movements[i].sets[k].reps)

\* C11: a submit of rejected input leaves the lift, the editing state, the
\* cache, the store and the pending store operations unchanged and shows a
\* warning; and every movement of the lift has a non-empty name and every
\* set a valid positive weight and valid positive reps.
C11_RejectedSubmitChangesNothing ==
    /\ [](WellFormedEntries(lift))
    /\ [][ ( RejectedInput /\ Submit(firstValue, secondValue) )
           => ( /\ UNCHANGED screenVars
                /\ shownWarning' # "" ) ]_vars

\* a zero weight was submitted for a set and rejected: the warning is on
\* display over the fields that still hold the rejected values
C11_Witness ==
    /\ entryMode = "double"
    /\ editingTarget = "set"
    /\ firstValue = <<"0">>
    /\ secondValue = <<"5">>
    /\ shownWarning = "Please enter a valid positive number for weight"
    /\ lift.movements # <<>>

\* the texts of ^\d*\.?\d+$ : digits, at most one dot, then one digit or more
DigitTexts(n) == { t \in TextsOfLen(n) : \A i \in 1..n : t[i] \in Digits }
NumberLanguage ==
    { a \o dot \o b : a \in UNION { DigitTexts(n) : n \in 0..MaxTextLen },
                      dot \in { <<>>, <<".">> },
                      b \in UNION { DigitTexts(n) : n \in 1..MaxTextLen } }

DigitValue(c) == IF c = "5" THEN 5 ELSE 0

\* the value of a text of the language, times ten to the number of decimals
RECURSIVE ScaledValue(_)
ScaledValue(t) ==
    IF t = <<>> THEN 0
    ELSE IF t[Len(t)] = "." THEN ScaledValue(SubSeq(t, 1, Len(t) - 1))
    ELSE 10 * ScaledValue(SubSeq(t, 1, Len(t) - 1)) + DigitValue(t[Len(t)])

PositiveNumberText(t) == t \in NumberLanguage /\ ScaledValue(t) > 0

\* C12: the number check accepts the typed weight exactly when it is a text of
\* ^\d*\.?\d+$ with a value above 0 ("5", ".5", "5.5" are valid; "0", "-5",
\* "" are not), and a submit of a weight with valid reps reaches onSubmit
\* (a save is issued) exactly for such a weight.
C12_IsValidNumber ==
    /\ [](isValidNumber(firstValue) <=> PositiveNumberText(firstValue))
    /\ [](/\ isValidNumber(<<"5">>) /\ isValidNumber(<<".", "5">>)
          /\ isValidNumber(<<"5", ".", "5">>)
          /\ ~isValidNumber(<<"0">>) /\ ~isValidNumber(<<"-", "5">>)
          /\ ~isValidNumber(<<>>))
    /\ [][ ( /\ editingTarget = "set"
             /\ isValidNumber(Trim(secondValue))
             /\ Submit(firstValue, secondValue) )
           => ( (pending' # pending) <=> PositiveNumberText(Trim(firstValue)) ) ]_vars

\* a decimal weight below one was typed and accepted: it is the weight of the
\* saved set, and a zero typed next is on display with its warning
C12_Witness ==
    /\ lift.movements # <<>>
    /\ lift.movements[1].sets # <<>>
    /\ lift.movements[1].sets[1].weight = <<"0", ".", "5">>
    /\ firstValue = <<"0", ".", "0">>
    /\ shownWarning = "Please enter a valid positive number for weight"

\* the editing state the spec gives for an opened lift
OpensIn(l) ==
    IF l.title = <<>>
    THEN <<"single", "title", Null, Null, FALSE>>
    ELSE IF l.movements = <<>>
    THEN <<"single", "movementName", Some(-1), Null, TRUE>>
    ELSE IF l.movements[Len(l.movements)].sets = <<>>
    THEN <<"double", "set", Some(Len(l.movements) - 1), Some(0), FALSE>>
    ELSE <<"single", "none", Null, Null, FALSE>>

\* C13: without a lift id the editor starts in {single, title, null, null,
\* false}; when loadLift finishes with a stored lift, the editing state is
\* title for a lift without title, movementName with index -1 and adding for
\* a titled lift without movements, set 0 of the last movement in double mode
\* when that movement has no sets, and none otherwise.
C13_InitialEditingState ==
    /\ ( lift.id = NewId => EditingIs("single", "title", Null, Null, FALSE) )
    /\ [][ ( isLoading /\ ~isLoading' /\ lift.id \in DOMAIN store )
           => ( /\ lift'.title = store[lift.id].title
                /\ lift'.movements = store[lift.id].movements
                /\ editVars' = OpensIn(lift') ) ]_vars

\* the stored lift whose only movement has no sets has been loaded: the
\* editor waits for the first set of that movement
C13_Witness ==
    /\ ~isLoading
    /\ ~mutated
    /\ lift.id = OpenId
    /\ OpenId \in DOMAIN store
    /\ lift.movements = store[OpenId].movements
    /\ Len(lift.movements) = 1
    /\ lift.movements[1].sets = <<>>
    /\ EditingIs("double", "set", Some(0), Some(0), FALSE)

\* C14: the keyboard is dismissed.  While no tap on an empty line is
\* switching to a set entry, the editing state becomes {single, none, null,
\* null, false}; during such a switch the editing state stays as it is.  In
\* both cases the lift, the cache, the store and the pending store operations
\* are unchanged.
C14_KeyboardDismiss ==
    [][ handleKeyboardDismiss
        => ( /\ IF ~isTransitioningToSetRef
                THEN EditingBecomes("single", "none", Null, Null, FALSE)
                ELSE UNCHANGED editVars
             /\ UNCHANGED <<lift, allLifts, store, pending>> ) ]_vars

\* a stored lift with a title only was opened, which asks for the first
\* movement, and the keyboard was dismissed: nothing is edited and the lift
\* is the one that was loaded
C14_Witness ==
    /\ ~isLoading
    /\ ~mutated
    /\ lift.id = OpenId
    /\ OpenId \in DOMAIN store
    /\ lift.title # <<>>
    /\ lift.movements = <<>>
    /\ store[OpenId].movements = <<>>
    /\ EditingIs("single", "none", Null, Null, FALSE)

\* C15: a gesture event with a translation above 18 that has not yet fired in
\* this gesture empties both fields and hides the warning, and no gesture
\* event or gesture state change touches the lift, the editing state, the
\* cache, the store or the pending store operations; the clear-and-dismiss
\* fires at most once between the start of a gesture and its end,
\* cancellation or failure.
C15_SwipeClearsOncePerGesture ==
    /\ [](firesInGesture <= 1)
    /\ [][ ( \E y \in Translations :
                 y > 18 /\ ~hasTriggeredDismissRef /\ handleGestureEvent(y) )
           => ( firstValue' = <<>> /\ secondValue' = <<>> /\ shownWarning' = "" ) ]_vars
    /\ [][ ( \/ \E y \in Translations : handleGestureEvent(y)
             \/ \E g \in GestureStates : handleGestureStateChange(g) )
           => UNCHANGED screenVars ]_vars

\* the swipe has cleared a weight and reps that were typed for a set: the
\* gesture is still active, the fields are empty and no set was logged
C15_Witness ==
    /\ gestureState = "ACTIVE"
    /\ hasTriggeredDismissRef
    /\ firesInGesture = 1
    /\ firstValue = <<>>
    /\ secondValue = <<>>
    /\ editingTarget = "set"
    /\ lift.movements # <<>>
    /\ lift.movements[1].sets = <<>>

\* C16: whenever the footer is shown with editingTarget none, a non-empty
\* title and no movement being added, a focus on the entry field switches to
\* {single, movementName, -1, null, true}: the handler gets past its early
\* returns.
C16_FocusSurfacesTarget ==
    ( /\ ~isLoading
      /\ editingTarget = "none"
      /\ lift.title # <<>>
      /\ ~isAddingNewMovement )
    => focusShowsBubble

\* C17: when loadLift finishes for an id the store does not hold, the editor
\* stops loading and the lift in memory stays the empty lift of that id; a
\* title submitted afterwards becomes the lift's title and a save of the lift
\* is issued under that id, whose write puts the titled lift under that id.
C17_NotFoundOpening ==
    /\ [][ ( isLoading /\ ~isLoading' /\ lift.id \notin DOMAIN store )
           => ( /\ lift' = lift
                /\ lift'.title = <<>>
                /\ lift'.movements = <<>> ) ]_vars
    /\ [][ \A f \in TitleInputs :
             ( /\ ~isLoading
               /\ lift.id = OpenId
               /\ OpenId \notin DOMAIN store
               /\ lift.title = <<>>
               /\ Trim(f) # <<>>
               /\ Submit(f, <<>>) )
             => ( /\ lift'.title = Trim(f)
                  /\ lift'.id = OpenId
                  /\ SaveIssued(lift')
                  /\ pending'[Len(pending')].lift.id = OpenId ) ]_vars
    /\ [][ \A k \in 1..(MaxPending + 2) :
             ( /\ OpenId \notin DOMAIN store
               /\ SaveWrite(k) )
             => ( /\ DOMAIN store' = {pending[k].lift.id}
                  /\ store'[pending[k].lift.id].id = pending[k].lift.id
                  /\ store'[pending[k].lift.id].title = pending[k].lift.title ) ]_vars

\* the id was not found, a title was submitted and its save has written: the
\* store, empty when the editor opened, holds the titled lift under that id
C17_Witness ==
    /\ ~isLoading
    /\ lift.id = OpenId
    /\ lift.title = <<"A">>
    /\ lift.movements = <<>>
    /\ lift.date = Today
    /\ DOMAIN store = {OpenId}
    /\ store[OpenId].title = <<"A">>
    /\ store[OpenId].movements = <<>>
    /\ \E k \in 1..Len(pending) :
          /\ pending[k].kind = "save"
          /\ pending[k].phase = "written"
          /\ pending[k].snap = NoStore

\* the spec's normalizeForSave: the date filled in, no movement without sets
NormalizeForSave(l) ==
    [ id |-> l.id,
      date |-> IF l.date = "" THEN Today ELSE l.date,
      title |-> l.title,
      movements |-> SelectSeq(l.movements, LAMBDA m : m.sets # <<>>) ]

\* C18: the lift a save hands to the store is normalizeForSave of the lift in
\* memory, and once the save has written, retrieveLift by the lift's id
\* returns that lift, whatever getLocalData makes of the other entries of the
\* store, entries keyed by date included.
C18_RoundTrip ==
    /\ [][ ( /\ Len(pending') = Len(pending) + 1
             /\ pending'[Len(pending')].kind = "save" )
           => pending'[Len(pending')].lift = NormalizeForSave(lift') ]_vars
    /\ [][ \A k \in 1..(MaxPending + 2) :
             SaveWrite(k)
             => \A lifts \in getLocalData(store') :
                   retrieveLift(lifts, pending[k].lift.id) = { <<pending[k].lift>> } ]_vars

\* a save has written into a store that held the opened lift under a date
\* key: the object written has the lift under its id only, and it is the
\* lift in memory normalised, not the lift the cache was hydrated with
C18_Witness ==
    /\ lift.id = OpenId
    /\ mutated
    /\ DOMAIN store = {OpenId}
    /\ store[OpenId] = NormalizeForSave(lift)
    /\ \E k \in 1..Len(pending) :
          /\ pending[k].kind = "save"
          /\ pending[k].phase = "written"
          /\ pending[k].lift = store[OpenId]
    /\ \E k \in DOMAIN allLifts : allLifts[k].id = OpenId /\ allLifts[k] # store[OpenId]

\* C19: when two saves of the same lift id, issued one after the other, have
\* both written, the store holds under that id the lift of the save issued
\* last.
C19_LastWriteWins ==
    \A j \in 1..Len(pending), k \in 1..Len(pending) :
        ( /\ j < k
          /\ pending[j].kind = "save" /\ pending[j].phase = "written"
          /\ pending[k].kind = "save" /\ pending[k].phase = "written"
          /\ pending[j].lift.id = pending[k].lift.id )
        => ( /\ pending[k].lift.id \in DOMAIN store
             /\ store[pending[k].lift.id] = pending[k].lift )

\* C20: once no asynchronous store operation is pending, the cache holds
\* under lift.id the value the store holds under lift.id (and no value when
\* the store holds none).
C20_CacheMatchesStore ==
    ( pending = <<>> )
    => ( /\ (lift.id \in DOMAIN allLifts) = (lift.id \in DOMAIN store)
         /\ lift.id \in DOMAIN store => allLifts[lift.id] = store[lift.id] )

\* C21: once the editor has navigated to the list after a confirmed delete
\* of the lift and no store operation is pending, the lift's id is neither a
\* key of the store nor a key of the cache.
C21_DeletedLiftIsGone ==
    ( route = "LiftList" /\ pending = <<>> )
    => ( lift.id \notin DOMAIN store /\ lift.id \notin DOMAIN allLifts )

\* C22: every lift a save of the editor writes to the store has a non-empty
\* title.
C22_NoUntitledLiftWritten ==
    [][ \A k \in 1..(MaxPending + 2) :
          SaveWrite(k) => store'[pending[k].lift.id].title # <<>> ]_vars

(***************************************************************************)
(* Suggestions: the text operations of the suggestion lists.               *)
(***************************************************************************)
LowerCaseLetters == <<"a", "b", "c", "d", "e", "f", "g", "h", "i", "j", "k", "l", "m", "n", "o", "p", "q", "r", "s", "t", "u", "v", "w", "x", "y", "z">>
UpperCaseLetters == <<"A", "B", "C", "D", "E", "F", "G", "H", "I", "J", "K", "L", "M", "N", "O", "P", "Q", "R", "S", "T", "U", "V", "W", "X", "Y", "Z">>

LowerOf ==
    [ c \in { UpperCaseLetters[i] : i \in 1..Len(UpperCaseLetters) } |->
        LowerCaseLetters[CHOOSE i \in 1..Len(UpperCaseLetters) : UpperCaseLetters[i] = c] ]

\* String.prototype.toLowerCase
toLowerCase(s) ==
    [ i \in 1..Len(s) |-> IF s[i] \in DOMAIN LowerOf THEN LowerOf[s[i]] ELSE s[i] ]

\* the characters of /[\s\-/:()]+/
WordSeparators == WhiteSpace \cup {"-", "/", ":", "(", ")"}

\* text.split(/[\s\-/:()]+/).filter(word => word.length > 0): word is the
\* word being read
RECURSIVE SplitWords(_, _)
SplitWords(s, word) ==
    IF s = <<>> THEN (IF word = <<>> THEN <<>> ELSE <<word>>)
    ELSE IF Head(s) \in WordSeparators
         THEN (IF word = <<>> THEN <<>> ELSE <<word>>) \o SplitWords(Tail(s), <<>>)
         ELSE SplitWords(Tail(s), Append(word, Head(s)))

splitIntoWords(text) ==
    LET words == SplitWords(text, <<>>)
    IN  [ i \in 1..Len(words) |-> toLowerCase(words[i]) ]

\* String.prototype.startsWith
startsWith(word, query) ==
    Len(query) <= Len(word) /\ SubSeq(word, 1, Len(query)) = query

\* a variant that looks for the query at the start of the text only
matchesQueryAtStart(text, query) ==
    query = <<>> \/ startsWith(toLowerCase(text), query)

matchesQuery(text, query) ==
    IF query = <<>> THEN TRUE
    ELSE LET words == splitIntoWords(text)
         IN  \E i \in 1..Len(words) : startsWith(words[i], query)

\* String.prototype.localeCompare in the root collation, over the characters
\* of the model: white space, punctuation, digits and letters in this
\* order, letter case looked at only between texts that are otherwise
\* equal, the lower-case letter first
CollationOrder ==
    <<" ", "-", ":", ".", "(", ")", "/",
      "0", "1", "2", "3", "4", "5", "6", "7", "8", "9">> \o LowerCaseLetters

PrimaryWeight ==
    [ c \in { CollationOrder[i] : i \in 1..Len(CollationOrder) } \cup DOMAIN LowerOf |->
        CHOOSE i \in 1..Len(CollationOrder) :
            CollationOrder[i] = IF c \in DOMAIN LowerOf THEN LowerOf[c] ELSE c ]

RECURSIVE ComparePrimary(_, _)
ComparePrimary(a, b) ==
    IF a = <<>> THEN (IF b = <<>> THEN 0 ELSE -1)
    ELSE IF b = <<>> THEN 1
    ELSE IF PrimaryWeight[Head(a)] < PrimaryWeight[Head(b)] THEN -1
    ELSE IF PrimaryWeight[Head(a)] > PrimaryWeight[Head(b)] THEN 1
    ELSE ComparePrimary(Tail(a), Tail(b))

\* for two texts that are equal ignoring case
RECURSIVE CompareCase(_, _)
CompareCase(a, b) ==
    IF a = <<>> THEN 0
    ELSE IF Head(a) = Head(b) THEN CompareCase(Tail(a), Tail(b))
    ELSE IF Head(a) \in DOMAIN LowerOf THEN 1 ELSE -1

localeCompare(a, b) ==
    LET primary == ComparePrimary(a, b)
    IN  IF primary # 0 THEN primary ELSE CompareCase(a, b)

\* [...texts].sort((a, b) => a.localeCompare(b)): the sort is stable
RECURSIVE InsertByLocale(_, _)
InsertByLocale(sorted, text) ==
    IF sorted = <<>> THEN <<text>>
    ELSE IF localeCompare(Head(sorted), text) <= 0
         THEN <<Head(sorted)>> \o InsertByLocale(Tail(sorted), text)
         ELSE <<text>> \o sorted

RECURSIVE sortByLocale(_)
sortByLocale(texts) ==
    IF texts = <<>> THEN <<>>
    ELSE InsertByLocale(sortByLocale(SubSeq(texts, 1, Len(texts) - 1)),
                        texts[Len(texts)])

\* Array.prototype.slice(0, n)
Take(seq, n) == SubSeq(seq, 1, IF Len(seq) < n THEN Len(seq) ELSE n)

DEFAULT_LIFT_TITLES ==
    << <<"P", "u", "l", "l", " ", "D", "a", "y">>,
       <<"P", "u", "s", "h", " ", "D", "a", "y">>,
       <<"L", "e", "g", " ", "D", "a", "y">>,
       <<"C", "h", "e", "s", "t", " ", "D", "a", "y">>,
       <<"B", "a", "c", "k", " ", "D", "a", "y">>,
       <<"A", "r", "m", " ", "D", "a", "y">>,
       <<"S", "h", "A", "r", "m", " ", "D", "a", "y">>,
       <<"S", "h", "o", "u", "l", "d", "e", "r", " ", "D", "a", "y">> >>

DEFAULT_MOVEMENTS ==
    << <<"L", "a", "t", " ", "P", "u", "l", "l", "d", "o", "w", "n">>,
       <<"L", "a", "t", " ", "P", "u", "l", "l", "o", "v", "e", "r">>,
       <<"F", "a", "c", "e", " ", "P", "u", "l", "l">>,
       <<"R", "o", "w">>,
       <<"F", "l", "y">>,
       <<"D", "i", "p">>,
       <<"I", "n", "c", "l", "i", "n", "e", " ", "P", "r", "e", "s", "s">>,
       <<"L", "o", "w", " ", "F", "l", "y">>,
       <<"H", "a", "m", "s", "t", "r", "i", "n", "g", " ", "C", "u", "r", "l">>,
       <<"Q", "u", "a", "d", " ", "E", "x", "t", "e", "n", "s", "i", "o", "n">>,
       <<"C", "a", "l", "f", " ", "E", "x", "t", "e", "n", "s", "i", "o", "n">>,
       <<"A", "d", "d", "u", "c", "t", "i", "o", "n">>,
       <<"A", "b", "d", "u", "c", "t", "i", "o", "n">>,
       <<"L", "e", "g", " ", "P", "r", "e", "s", "s">>,
       <<"P", "r", "e", "a", "c", "h", "e", "r", " ", "C", "u", "r", "l">>,
       <<"L", "a", "t", "e", "r", "a", "l", " ", "R", "a", "i", "s", "e">>,
       <<"T", "r", "i", "c", "e", "p", " ", "P", "u", "s", "h", "d", "o", "w", "n">>,
       <<"B", "a", "y", "e", "s", "i", "a", "n", " ", "C", "u", "r", "l">>,
       <<"S", "h", "o", "u", "l", "d", "e", "r", " ", "P", "r", "e", "s", "s">>,
       <<"O", "v", "e", "r", "h", "e", "a", "d", " ", "T", "r", "i", "c", "e", "p", " ", "E", "x", "t", "e", "n", "s", "i", "o", "n">> >>

(***************************************************************************)
(* Suggestions: the recency score, the ranked titles and the context.      *)
(* Times are counted in units of 100 s, so that the millisecond values of  *)
(* the dates and ids of the model are integers within range.               *)
(***************************************************************************)
\* Date.parse(`${date}T00:00:00`) of the dates of the model; NaN otherwise
DateTimestamps ==
    ("2023-06-01" :> 16855776) @@ ("2024-01-01" :> 17040672) @@
    ("2024-01-02" :> 17041536)

\* Number(id) of the ids of the model; NaN for a key that is a date, 0 for ""
IdNumbers ==
    ("1500000000000" :> 15000000) @@ ("1600000000000" :> 16000000) @@
    ("1650000000000" :> 16500000) @@ ("1690000000000" :> 16900000) @@
    ("1700000000000" :> 17000000) @@ ("" :> 0)

Max(a, b) == IF a >= b THEN a ELSE b

getLiftSortKey(liftToScore) ==
    LET parsedDate == IF liftToScore.date \in DOMAIN DateTimestamps
                      THEN DateTimestamps[liftToScore.date] ELSE 0
        parsedId == IF liftToScore.id \in DOMAIN IdNumbers
                    THEN IdNumbers[liftToScore.id] ELSE 0
    IN  Max(parsedDate, parsedId)

\* Object.values(allLifts) enumerates the lifts in the order their keys were
\* inserted, which the cache of the model does not record: every order of
\* the keys is one the collection can have
EnumerationOrders(lifts) ==
    { order \in [1..Cardinality(DOMAIN lifts) -> DOMAIN lifts] :
        \A i, j \in 1..Cardinality(DOMAIN lifts) : i # j => order[i] # order[j] }

ObjectValues(lifts, order) == [ i \in 1..Len(order) |-> lifts[order[i]] ]

\* the loops of the movement and weight suggestions pass over the current
\* lift: the orders in which the other lifts can be enumerated
OtherLiftOrders ==
    EnumerationOrders([ id \in DOMAIN allLifts \ {lift.id} |-> allLifts[id] ])

\* Array.prototype.filter
RECURSIVE SelectTitled(_)
SelectTitled(items) ==
    IF items = <<>> THEN <<>>
    ELSE IF Trim(Head(items).title) # <<>>
         THEN <<Head(items)>> \o SelectTitled(Tail(items))
         ELSE SelectTitled(Tail(items))

\* validTitles.sort((a, b) => getLiftSortKey(b) - getLiftSortKey(a)): stable
RECURSIVE InsertByRecency(_, _)
InsertByRecency(sorted, item) ==
    IF sorted = <<>> THEN <<item>>
    ELSE IF getLiftSortKey(Head(sorted)) >= getLiftSortKey(item)
         THEN <<Head(sorted)>> \o InsertByRecency(Tail(sorted), item)
         ELSE <<item>> \o sorted

RECURSIVE sortByRecency(_)
sortByRecency(items) ==
    IF items = <<>> THEN <<>>
    ELSE InsertByRecency(sortByRecency(SubSeq(items, 1, Len(items) - 1)),
                         items[Len(items)])

\* the forEach of orderedLiftTitles: the trimmed title of each lift whose
\* lower-cased title was not met before
RECURSIVE DistinctTitles(_, _)
DistinctTitles(items, seen) ==
    IF items = <<>> THEN <<>>
    ELSE LET trimmed == Trim(Head(items).title)
             key == toLowerCase(trimmed)
         IN  IF trimmed # <<>> /\ key \notin seen
             THEN <<trimmed>> \o DistinctTitles(Tail(items), seen \cup {key})
             ELSE DistinctTitles(Tail(items), seen)

\* a variant that leaves the lifts in the order of their enumeration
unorderedLiftTitles(order) ==
    DistinctTitles(SelectTitled(ObjectValues(allLifts, order)), {})

orderedLiftTitles(order) ==
    DistinctTitles(sortByRecency(SelectTitled(ObjectValues(allLifts, order))), {})

suggestionContextOf(mode, target, title) ==
    IF mode = "double" /\ target = "set" THEN "weight"
    ELSE IF mode # "single" THEN "none"
    ELSE IF target = "set" THEN "none"
    ELSE IF target = "title" THEN "title"
    ELSE IF title = <<>> THEN "title"
    ELSE "movement"

suggestionContext == suggestionContextOf(entryMode, editingTarget, lift.title)

\* the query of the title and movement suggestions
query == toLowerCase(Trim(firstValue))

\* the forEach of a priority list: the trimmed texts that were not met
\* before and match the query
RECURSIVE MatchingUnseen(_, _, _)
MatchingUnseen(texts, q, seen) ==
    IF texts = <<>> THEN <<>>
    ELSE LET trimmed == Trim(Head(texts))
             key == toLowerCase(trimmed)
         IN  IF trimmed = <<>> \/ key \in seen \/ ~matchesQuery(trimmed, q)
             THEN MatchingUnseen(Tail(texts), q, seen)
             ELSE <<trimmed>> \o MatchingUnseen(Tail(texts), q, seen \cup {key})

KeysOf(texts) == { toLowerCase(texts[i]) : i \in 1..Len(texts) }

sortedDefaults == sortByLocale(DEFAULT_LIFT_TITLES)

titlePriority1(order) == MatchingUnseen(orderedLiftTitles(order), query, {})

titlePriority2(order) ==
    MatchingUnseen(sortedDefaults, query, KeysOf(titlePriority1(order)))

\* allSuggestions of titleSuggestions: the candidates in rank order
titleCandidates(order) == titlePriority1(order) \o titlePriority2(order)

\* a variant that displays the top 3 in rank order
displayInRankOrder(allSuggestions) == Take(allSuggestions, 3)

\* top3 and its arrangement for display: [2nd, 1st, 3rd]
displayOrder(allSuggestions) ==
    LET top3 == Take(allSuggestions, 3)
    IN  IF Len(top3) = 0 THEN <<>>
        ELSE IF Len(top3) = 1 THEN <<top3[1]>>
        ELSE IF Len(top3) = 2 THEN <<top3[2], top3[1]>>
        ELSE <<top3[2], top3[1], top3[3]>>

titleSuggestions(order) ==
    IF suggestionContext # "title" THEN <<>>
    ELSE displayOrder(titleCandidates(order))

(***************************************************************************)
(* Suggestions: movement names.                                            *)
(***************************************************************************)
normalizedCurrentTitle == toLowerCase(Trim(lift.title))

\* the lower-cased trimmed names of the movements of the current lift
existingNames ==
    { toLowerCase(Trim(lift.movements[i].name)) :
        i \in { j \in 1..Len(lift.movements) : Trim(lift.movements[j].name) # <<>> } }

isNameMatched(liftItem) ==
    liftItem.title # <<>> /\ toLowerCase(Trim(liftItem.title)) = normalizedCurrentTitle

\* the movement names the two loops visit, in the order they visit them:
\* those of every lift but the current one, as enumerated ...
RECURSIVE HistoryNames(_)
HistoryNames(items) ==
    IF items = <<>> THEN <<>>
    ELSE IF Head(items).id = lift.id THEN HistoryNames(Tail(items))
    ELSE [ i \in 1..Len(Head(items).movements) |->
             [ name |-> Head(items).movements[i].name,
               from |-> IF isNameMatched(Head(items)) THEN "sameTitle" ELSE "otherTitle" ] ]
         \o HistoryNames(Tail(items))

\* ... then the defaults
DefaultNames ==
    [ i \in 1..Len(DEFAULT_MOVEMENTS) |-> [ name |-> DEFAULT_MOVEMENTS[i], from |-> "default" ] ]

\* the priority list a name is pushed to
bucketOf(from, isExisting) ==
    IF isExisting THEN 4
    ELSE IF from = "default" THEN 3
    ELSE IF from = "sameTitle" THEN 1
    ELSE 2

\* the bodies of the two loops: a name that is empty, was met before or does
\* not match is passed over, any other is marked as met and pushed
RECURSIVE Prioritized(_, _, _)
Prioritized(names, q, seen) ==
    IF names = <<>> THEN <<>>
    ELSE LET trimmed == Trim(Head(names).name)
             key == toLowerCase(trimmed)
         IN  IF trimmed = <<>> \/ key \in seen \/ ~matchesQuery(trimmed, q)
             THEN Prioritized(Tail(names), q, seen)
             ELSE << [ name |-> trimmed,
                       priority |-> bucketOf(Head(names).from, key \in existingNames) ] >>
                  \o Prioritized(Tail(names), q, seen \cup {key})

prioritizedNames(order) ==
    Prioritized(HistoryNames(ObjectValues(allLifts, order)) \o DefaultNames, query, {})

RECURSIVE NamesOfPriority(_, _)
NamesOfPriority(entries, n) ==
    IF entries = <<>> THEN <<>>
    ELSE IF Head(entries).priority = n
         THEN <<Head(entries).name>> \o NamesOfPriority(Tail(entries), n)
         ELSE NamesOfPriority(Tail(entries), n)

\* priority1 .. priority4 after their sort
priorityList(entries, n) == sortByLocale(NamesOfPriority(entries, n))

\* allSuggestions of movementSuggestions: the candidates in rank order
movementCandidates(order) ==
    LET entries == prioritizedNames(order)
    IN  priorityList(entries, 1) \o priorityList(entries, 2) \o
        priorityList(entries, 3) \o priorityList(entries, 4)

movementSuggestions(order) ==
    IF suggestionContext # "movement" THEN <<>>
    ELSE displayOrder(movementCandidates(order))

(***************************************************************************)
(* Suggestions: the weight.  A weight is counted in hundredths; the texts  *)
(* of the model have at most two decimals and no exponent.                 *)
(***************************************************************************)
DecimalDigits == <<"0", "1", "2", "3", "4", "5", "6", "7", "8", "9">>

DigitOf == [ c \in { DecimalDigits[i] : i \in 1..10 } |->
               (CHOOSE i \in 1..10 : DecimalDigits[i] = c) - 1 ]

\* the longest prefix of digits
RECURSIVE DigitPrefix(_)
DigitPrefix(s) ==
    IF s # <<>> /\ Head(s) \in DOMAIN DigitOf
    THEN <<Head(s)>> \o DigitPrefix(Tail(s))
    ELSE <<>>

RECURSIVE DigitsValue(_)
DigitsValue(ds) ==
    IF ds = <<>> THEN 0
    ELSE 10 * DigitsValue(SubSeq(ds, 1, Len(ds) - 1)) + DigitOf[ds[Len(ds)]]

\* parseFloat: leading white space, a sign, the longest decimal literal;
\* Null is NaN
parseFloat(text) ==
    LET t == TrimStart(text)
        signed == t # <<>> /\ Head(t) \in {"-", "+"}
        u == IF signed THEN Tail(t) ELSE t
        whole == DigitPrefix(u)
        afterWhole == SubSeq(u, Len(whole) + 1, Len(u))
        fraction == IF afterWhole # <<>> /\ Head(afterWhole) = "."
                    THEN DigitPrefix(Tail(afterWhole)) ELSE <<>>
        hundredths == DigitsValue(Take(fraction \o <<"0", "0">>, 2))
        magnitude == 100 * DigitsValue(whole) + hundredths
    IN  IF whole = <<>> /\ fraction = <<>> THEN Null
        ELSE Some(IF signed /\ Head(t) = "-" THEN -magnitude ELSE magnitude)

RECURSIVE NaturalToString(_)
NaturalToString(n) ==
    IF n < 10 THEN <<DecimalDigits[n + 1]>>
    ELSE Append(NaturalToString(n \div 10), DecimalDigits[(n % 10) + 1])

\* Number.prototype.toString of a positive weight
weightToString(w) ==
    NaturalToString(w \div 100) \o
    (IF w % 100 = 0 THEN <<>>
     ELSE IF w % 10 = 0 THEN <<".", DecimalDigits[((w % 100) \div 10) + 1]>>
     ELSE <<".", DecimalDigits[((w % 100) \div 10) + 1], DecimalDigits[(w % 10) + 1]>>)

\* the name of the movement being edited, trimmed; <<>> when there is none
editedMovementName ==
    IF TargetedMovement(lift, editingMovementIndex) = <<>> THEN <<>>
    ELSE Trim(TargetedMovement(lift, editingMovementIndex)[1].name)

hasMovement(liftItem, normalizedName) ==
    \E i \in 1..Len(liftItem.movements) :
        toLowerCase(Trim(liftItem.movements[i].name)) = normalizedName

\* the loop without the comparison with previousLiftSortKey
RECURSIVE firstPreviousLift(_, _, _)
firstPreviousLift(items, normalizedName, previous) ==
    IF items = <<>> THEN previous
    ELSE IF \/ previous # <<>>
            \/ Head(items).id = lift.id
            \/ getLiftSortKey(Head(items)) >= getLiftSortKey(lift)
            \/ ~hasMovement(Head(items), normalizedName)
         THEN firstPreviousLift(Tail(items), normalizedName, previous)
         ELSE firstPreviousLift(Tail(items), normalizedName, <<Head(items)>>)

\* the loop that finds previousLift: previous is <<>> (null) or the lift
\* found so far, whose score is previousLiftSortKey (-1 for none)
RECURSIVE findPreviousLift(_, _, _)
findPreviousLift(items, normalizedName, previous) ==
    IF items = <<>> THEN previous
    ELSE IF \/ Head(items).id = lift.id
            \/ getLiftSortKey(Head(items)) >= getLiftSortKey(lift)
            \/ ~hasMovement(Head(items), normalizedName)
            \/ ~( getLiftSortKey(Head(items)) >
                  (IF previous = <<>> THEN -1 ELSE getLiftSortKey(previous[1])) )
         THEN findPreviousLift(Tail(items), normalizedName, previous)
         ELSE findPreviousLift(Tail(items), normalizedName, <<Head(items)>>)

\* a variant that takes the first lift found
previousLiftFirstFound(order) ==
    firstPreviousLift(ObjectValues(allLifts, order), toLowerCase(editedMovementName), <<>>)

previousLift(order) ==
    findPreviousLift(ObjectValues(allLifts, order), toLowerCase(editedMovementName), <<>>)

\* the sets of one movement with a weight that parses to a number above 0.
\* sortKey is previousLiftSortKey * 1000 + setIndex, of which the model
\* keeps setIndex: the sets are those of one lift
RECURSIVE WeightsOfSets(_, _)
WeightsOfSets(sets, setIndex) ==
    IF sets = <<>> THEN <<>>
    ELSE LET w == parseFloat(Head(sets).weight)
         IN  (IF w # Null /\ Val(w) > 0
              THEN << [weight |-> Val(w), sortKey |-> setIndex] >> ELSE <<>>)
             \o WeightsOfSets(Tail(sets), setIndex + 1)

RECURSIVE WeightsOfMovements(_, _)
WeightsOfMovements(movements, normalizedName) ==
    IF movements = <<>> THEN <<>>
    ELSE (IF toLowerCase(Trim(Head(movements).name)) = normalizedName
          THEN WeightsOfSets(Head(movements).sets, 0) ELSE <<>>)
         \o WeightsOfMovements(Tail(movements), normalizedName)

weightedSets(order) ==
    IF previousLift(order) = <<>> THEN <<>>
    ELSE WeightsOfMovements(previousLift(order)[1].movements,
                            toLowerCase(editedMovementName))

\* [...weightedSets].sort((a, b) => a.weight - b.weight): stable
RECURSIVE InsertByWeight(_, _)
InsertByWeight(sorted, item) ==
    IF sorted = <<>> THEN <<item>>
    ELSE IF Head(sorted).weight <= item.weight
         THEN <<Head(sorted)>> \o InsertByWeight(Tail(sorted), item)
         ELSE <<item>> \o sorted

RECURSIVE sortByWeight(_)
sortByWeight(items) ==
    IF items = <<>> THEN <<>>
    ELSE InsertByWeight(sortByWeight(SubSeq(items, 1, Len(items) - 1)),
                        items[Len(items)])

\* filtered.sort((a, b) => b.sortKey - a.sortKey): stable
RECURSIVE InsertByLatest(_, _)
InsertByLatest(sorted, item) ==
    IF sorted = <<>> THEN <<item>>
    ELSE IF Head(sorted).sortKey >= item.sortKey
         THEN <<Head(sorted)>> \o InsertByLatest(Tail(sorted), item)
         ELSE <<item>> \o sorted

RECURSIVE sortByLatest(_)
sortByLatest(items) ==
    IF items = <<>> THEN <<>>
    ELSE InsertByLatest(sortByLatest(SubSeq(items, 1, Len(items) - 1)),
                        items[Len(items)])

\* the clusters the two loops try, in the order they try them: slice(start,
\* end) of at least 2 weights, as [first, size] with first counted from 1
clustersTried(n) ==
    LET sizesFrom(start) == [ k \in 1..(n - start) |-> [first |-> start, size |-> k + 1] ]
        from[start \in 1..(n + 1)] ==
            IF start > n THEN <<>> ELSE sizesFrom(start) \o from[start + 1]
    IN  from[1]

Abs(x) == IF x < 0 THEN -x ELSE x

\* the test of the loop body: rangePerItem < bestRange, or the two are less
\* than 0.1 apart and the cluster is larger.  best is <<>> while bestRange
\* is Infinity; the quotients range / size are compared by cross products
betterCluster(byWeight, cluster, best) ==
    LET range == byWeight[cluster.first + cluster.size - 1].weight
                 - byWeight[cluster.first].weight
    IN  \/ best = <<>>
        \/ range * best[1].size < best[1].range * cluster.size
        \/ /\ Abs(range * best[1].size - best[1].range * cluster.size)
                 < 10 * cluster.size * best[1].size
           /\ cluster.size > best[1].size

RECURSIVE findBestCluster(_, _, _)
findBestCluster(byWeight, clusters, best) ==
    IF clusters = <<>> THEN best
    ELSE LET cluster == Head(clusters)
             range == byWeight[cluster.first + cluster.size - 1].weight
                      - byWeight[cluster.first].weight
         IN  IF betterCluster(byWeight, cluster, best)
             THEN findBestCluster(byWeight, Tail(clusters),
                                  << [first |-> cluster.first, size |-> cluster.size,
                                      range |-> range] >>)
             ELSE findBestCluster(byWeight, Tail(clusters), best)

\* workingWeights: bestCluster when it has 2 weights or more, else byWeight
workingWeights(byWeight) ==
    LET best == findBestCluster(byWeight, clustersTried(Len(byWeight)), <<>>)
    IN  IF best # <<>>
        THEN SubSeq(byWeight, best[1].first, best[1].first + best[1].size - 1)
        ELSE byWeight

\* minAllowed <= weight <= maxAllowed, with buffer = max(clusterRange * 0.1,
\* 2.5); both sides are multiplied by 10
insideBuffer(weight, clusterMin, clusterMax) ==
    LET buffer10 == Max(clusterMax - clusterMin, 2500)
    IN  /\ 10 * weight >= 10 * clusterMin - buffer10
        /\ 10 * weight <= 10 * clusterMax + buffer10

RECURSIVE SelectInside(_, _, _)
SelectInside(items, clusterMin, clusterMax) ==
    IF items = <<>> THEN <<>>
    ELSE (IF insideBuffer(Head(items).weight, clusterMin, clusterMax)
          THEN <<Head(items)>> ELSE <<>>)
         \o SelectInside(Tail(items), clusterMin, clusterMax)

\* filtered of weightSuggestions, for a non-empty weightedSets
filteredWeights(sets) ==
    LET working == workingWeights(sortByWeight(sets))
    IN  SelectInside(sets, working[1].weight, working[Len(working)].weight)

\* a variant that suggests nothing for a single set
bestWeightOfSeveral(sets) ==
    IF Len(sets) < 2 \/ filteredWeights(sets) = <<>> THEN <<>>
    ELSE << weightToString(sortByLatest(filteredWeights(sets))[1].weight) >>

bestWeight(sets) ==
    IF sets = <<>> \/ filteredWeights(sets) = <<>> THEN <<>>
    ELSE << weightToString(sortByLatest(filteredWeights(sets))[1].weight) >>

weightSuggestions(order) ==
    IF suggestionContext # "weight" THEN <<>>
    ELSE IF editedMovementName = <<>> THEN <<>>
    ELSE bestWeight(weightedSets(order))

\* a variant without the weight case
suggestionsForInputSingle(order) ==
    IF suggestionContext = "title" THEN titleSuggestions(order)
    ELSE IF suggestionContext = "movement" THEN movementSuggestions(order)
    ELSE <<>>

suggestionsForInput(order) ==
    IF suggestionContext = "title" THEN titleSuggestions(order)
    ELSE IF suggestionContext = "movement" THEN movementSuggestions(order)
    ELSE IF suggestionContext = "weight" THEN weightSuggestions(order)
    ELSE <<>>

(***************************************************************************)
(* The suggestion session: the editor opens a lift of a store that holds   *)
(* up to MaxHistory other lifts, the user types a query and taps the       *)
(* title, a movement, a set or the new-movement line.  The stores come in  *)
(* families: titles of several spellings and dates; movement names in      *)
(* lifts titled like the opened lift or otherwise; and, for the weight     *)
(* session, sets of every list of up to MaxWeights weights under the name  *)
(* of the movement of the opened lift.                                     *)
(***************************************************************************)
MaxHistory == 2
MaxWeights == 4

HistoryIds == <<"1650000000000", "1690000000000", "1500000000000">>
HistoryDates == {"2023-06-01", "2024-01-01", "2024-01-02"}

OneSet == << MkSet(<<"5">>, <<"5">>) >>

\* every store that holds the opened lift and, under each of the first n
\* history ids, a lift of choices (with that id) or nothing
RECURSIVE StoresOver(_, _, _)
StoresOver(opened, choices, n) ==
    IF n = 0 THEN { (opened.id :> opened) }
    ELSE LET rest == StoresOver(opened, choices, n - 1)
         IN  rest \cup
             { Put(st, HistoryIds[n], [c EXCEPT !.id = HistoryIds[n]]) :
                 st \in rest, c \in choices }

HistorySlots == IF MaxHistory < Len(HistoryIds) THEN MaxHistory ELSE Len(HistoryIds)

TitleTexts ==
    { <<>>, <<"L", "e", "g", " ", "D", "a", "y">>, <<" ", "l", "e", "g", " ", "d", "a", "y">>, <<"P", "u", "s", "h", " ", "D", "a", "y">>, <<"P", "r", "e", "-", "P", "u", "s", "h">> }

TitleFamily ==
    UNION { StoresOver(MkLift(OpenId, "2024-01-01", t, <<>>),
                       { MkLift("", d, ht, <<>>) :
                           d \in {"2023-06-01", "2024-01-02"}, ht \in TitleTexts },
                       HistorySlots) :
            t \in { <<>>, <<"L", "e", "g", " ", "D", "a", "y">> } }

MovementLists ==
    { << MkMovement(<<"S", "q", "u", "a", "t">>, OneSet) >>,
      << MkMovement(<<"S", "q", "u", "a", "t">>, OneSet), MkMovement(<<"L", "u", "n", "g", "e">>, OneSet) >>,
      << MkMovement(<<"s", "q", "u", "a", "t", " ">>, OneSet) >>,
      << MkMovement(<<"R", "o", "w">>, OneSet) >> }

MovementFamily ==
    UNION { StoresOver(MkLift(OpenId, "2024-01-01", <<"L", "e", "g", " ", "D", "a", "y">>, ms),
                       { MkLift("", "2023-06-01", ht, hms) :
                           ht \in { <<" ", "l", "e", "g", " ", "d", "a", "y">>, <<"P", "u", "s", "h", " ", "D", "a", "y">> }, hms \in MovementLists },
                       HistorySlots) :
            ms \in { << MkMovement(<<"S", "q", "u", "a", "t">>, OneSet) >>,
                     << MkMovement(<<"D", "e", "a", "d", "l", "i", "f", "t">>, OneSet) >>,
                     << MkMovement(<<"R", "o", "w">>, OneSet), MkMovement(<<"F", "l", "y">>, OneSet) >> } }

\* weights with a warm-up apart from the working sets, weights a fraction
\* apart, and a weight among texts that are no number above 0
WeightTexts == { { <<"9", "5">>, <<"1", "3", "5">>, <<"1", "4", "0">>, <<"1", "4", "2", ".", "5">> }, { <<"1", "0", "0">>, <<"1", "0", "0", ".", "1">>, <<"1", "0", "2", ".", "5", "5">> }, { <<"0">>, <<"x">>, <<"5", "0">> } }

RECURSIVE WeightListsOf(_, _)
WeightListsOf(texts, n) ==
    IF n = 0 THEN { <<>> }
    ELSE { Append(ws, MkSet(w, <<"5">>)) : ws \in WeightListsOf(texts, n - 1), w \in texts }

WeightLists(n) == UNION { WeightListsOf(texts, n) : texts \in WeightTexts }

\* the first history lift holds the movement with every list of weights;
\* the others hold it, or another movement, with one set of 200
WeightFamily ==
    LET opened == MkLift(OpenId, "2024-01-01", <<"L", "e", "g", " ", "D", "a", "y">>,
                         << MkMovement(<<"B", "e", "n", "c", "h">>, << MkSet(<<"3", "0", "0">>, <<"5">>) >>) >>)
        first == { MkLift(HistoryIds[1], d, <<"L", "e", "g", " ", "D", "a", "y">>, << MkMovement(<<" ", "b", "e", "n", "c", "h">>, ws) >>) :
                     d \in {"2023-06-01", "2024-01-01"},
                     ws \in UNION { WeightLists(n) : n \in 1..MaxWeights } }
        others == { MkLift("", d, <<"P", "u", "s", "h", " ", "D", "a", "y">>, << MkMovement(n, << MkSet(<<"2", "0", "0">>, <<"5">>) >>) >>) :
                      d \in HistoryDates, n \in { <<"B", "e", "n", "c", "h">>, <<"R", "o", "w">> } }
    IN  UNION { { Put(st, HistoryIds[1], f) : f \in first } :
                st \in { [ id \in DOMAIN h \ {HistoryIds[1]} |-> h[id] ] :
                           h \in StoresOver(opened, others, HistorySlots) } }

SuggestionOpenings ==
    { [liftId |-> OpenId, lifts |-> st] : st \in TitleFamily \cup MovementFamily }
    \cup { [liftId |-> "", lifts |-> [ id \in DOMAIN st \ {OpenId} |-> st[id] ]] :
             st \in TitleFamily }

Queries == { <<>>, <<"P", " ">>, <<"d">>, <<" ", "s">>, <<"u">> }

InitSuggestions == \E o \in SuggestionOpenings : Opened(o)

NextSuggestions ==
    \/ pending = <<>> /\ suggestionContext \in {"title", "movement"}
                      /\ \E text \in Queries : TypeFirst(text)
    \/ pending = <<>> /\ TitlePress
    \/ pending = <<>> /\ \E i \in 0..(MaxMovements - 1) : MovementPress(i)
    \/ pending = <<>> /\ \E i \in 0..(MaxMovements - 1), si \in 0..(MaxSets - 1) : SetPress(i, si)
    \/ pending = <<>> /\ NewMovementPress
    \/ \E k \in 1..(MaxPending + 2) : StoreRead(k)
    \/ \E k \in 1..(MaxPending + 2) : HydrateDone(k)
    \/ \E k \in 1..(MaxPending + 2) : LoadDone(k)

SpecSuggestions == InitSuggestions /\ [][NextSuggestions]_vars

(***************************************************************************)
(* The weight session: the editor opens a lift over the stores of the      *)
(* third family and the user taps a movement or a set.                     *)
(***************************************************************************)
InitWeights ==
    \E st \in WeightFamily : Opened([liftId |-> OpenId, lifts |-> st])

NextWeights ==
    \/ pending = <<>> /\ \E i \in 0..(MaxMovements - 1) : MovementPress(i)
    \/ pending = <<>> /\ \E i \in 0..(MaxMovements - 1), si \in 0..(MaxSets - 1) : SetPress(i, si)
    \/ \E k \in 1..(MaxPending + 2) : StoreRead(k)
    \/ \E k \in 1..(MaxPending + 2) : HydrateDone(k)
    \/ \E k \in 1..(MaxPending + 2) : LoadDone(k)

SpecWeights == InitWeights /\ [][NextWeights]_vars

(***************************************************************************)
(* C23 - C30.                                                              *)
(***************************************************************************)
DistinctIgnoringCase(list) ==
    \A i, j \in 1..Len(list) : i # j => toLowerCase(list[i]) # toLowerCase(list[j])

\* list is the display arrangement of the candidates ranked r1, r2, r3, ...
ArrangedFrom(list, ranked) ==
    /\ Len(ranked) = 0 => list = <<>>
    /\ Len(ranked) = 1 => list = <<ranked[1]>>
    /\ Len(ranked) = 2 => list = <<ranked[2], ranked[1]>>
    /\ Len(ranked) >= 3 => list = <<ranked[2], ranked[1], ranked[3]>>

\* C23: for every enumeration order of the lifts, each of the title, movement
\* and weight suggestion lists has at most 3 texts, no two of them equal
\* ignoring case, and the title and movement lists are their ranked
\* candidates r1, r2, r3 arranged as [r2, r1, r3], [r2, r1] or [r1].
C23_ListShape ==
    /\ \A order \in EnumerationOrders(allLifts) :
          LET list == titleSuggestions(order)
          IN  /\ Len(list) <= 3 /\ DistinctIgnoringCase(list)
              /\ suggestionContext = "title"
                    => ArrangedFrom(list, titleCandidates(order))
    /\ \A order \in OtherLiftOrders :
          LET list == movementSuggestions(order)
          IN  /\ Len(list) <= 3 /\ DistinctIgnoringCase(list)
              /\ suggestionContext = "movement"
                    => ArrangedFrom(list, movementCandidates(order))
    /\ \A order \in OtherLiftOrders :
          LET list == weightSuggestions(order)
          IN  Len(list) <= 1 /\ (suggestionContext = "weight" => list = bestWeight(weightedSets(order)))

\* the query "p" over the history titles Push Day and Pre-Push: the two, the
\* more recent in the middle, then the default Pull Day
C23_Witness ==
    /\ suggestionContext = "title"
    /\ query = <<"p">>
    /\ \E order \in EnumerationOrders(allLifts) :
          titleSuggestions(order) = << <<"P", "r", "e", "-", "P", "u", "s", "h">>, <<"P", "u", "s", "h", " ", "D", "a", "y">>, <<"P", "u", "l", "l", " ", "D", "a", "y">> >>

\* the context the rule gives for a mode, a target and a title
ContextRule(mode, target, title) ==
    IF mode = "double" /\ target = "set" THEN "weight"
    ELSE IF target = "title" \/ (mode = "single" /\ title = <<>>) THEN "title"
    ELSE IF mode = "single" /\ target # "set" /\ title # <<>> THEN "movement"
    ELSE "none"

\* the list of a context
ListOf(context, order) ==
    IF context = "title" THEN titleSuggestions(order)
    ELSE IF context = "movement" THEN movementSuggestions(order)
    ELSE IF context = "weight" THEN weightSuggestions(order)
    ELSE <<>>

\* C24: in every state of the editor the suggestion context is the one the
\* rule gives for (entryMode, editingTarget, lift.title): weight for double
\* and set; title for target title, or single with an empty title; movement
\* for single, a target other than set and a non-empty title; none
\* otherwise; and for every enumeration order the list on display is the
\* list of that context.
C24_ContextAndList ==
    /\ suggestionContext = ContextRule(entryMode, editingTarget, lift.title)
    /\ \A order \in EnumerationOrders(allLifts) :
          suggestionsForInput(order)
             = ListOf(ContextRule(entryMode, editingTarget, lift.title), order)

\* a set of the movement Squat is edited and an earlier lift holds a set of
\* Squat at weight 5: the weight context, and its list on display
C24_Witness ==
    /\ suggestionContext = "weight"
    /\ \E order \in EnumerationOrders(allLifts) : suggestionsForInput(order) = << <<"5">> >>

\* the titles of the history, trimmed and lower-cased
HistoryTitleKeys ==
    { toLowerCase(Trim(allLifts[id].title)) : id \in DOMAIN allLifts } \ { <<>> }

MatchingHistoryTitles == { key \in HistoryTitleKeys : matchesQuery(key, query) }

\* the recency score of the most recent lift that uses a title
TitleScore(key) ==
    LET uses == { id \in DOMAIN allLifts : toLowerCase(Trim(allLifts[id].title)) = key }
    IN  CHOOSE score \in { getLiftSortKey(allLifts[id]) : id \in uses } :
            \A id \in uses : getLiftSortKey(allLifts[id]) <= score

IsHistoryTitle(text) == toLowerCase(text) \in HistoryTitleKeys

\* C25: in the title context and for every enumeration order, each matching
\* title of the history is ranked exactly once (ignoring case), the history
\* titles are ranked ahead of every default title and among themselves by
\* the recency score of their most recent use, highest first, and a default
\* title is on display only if fewer than 3 distinct history titles match.
C25_HistoryTitlesFirst ==
    suggestionContext = "title" =>
    \A order \in EnumerationOrders(allLifts) :
        LET ranked == titleCandidates(order)
            history == { i \in 1..Len(ranked) : IsHistoryTitle(ranked[i]) }
        IN  /\ { toLowerCase(ranked[i]) : i \in history } = MatchingHistoryTitles
            /\ Cardinality(history) = Cardinality(MatchingHistoryTitles)
            /\ \A i \in history, j \in 1..Len(ranked) :
                  /\ j \notin history => i < j
                  /\ j \in history /\ i < j
                        => TitleScore(toLowerCase(ranked[i])) >= TitleScore(toLowerCase(ranked[j]))
            /\ \A i \in 1..Len(titleSuggestions(order)) :
                  ~IsHistoryTitle(titleSuggestions(order)[i])
                      => Cardinality(MatchingHistoryTitles) < 3

\* Leg Day is the title of two lifts, Push Day of one, which is the most
\* recent: Push Day is ranked first, then Leg Day, then the first default
C25_Witness ==
    /\ suggestionContext = "title"
    /\ query = <<>>
    /\ Cardinality(DOMAIN allLifts) = 3
    /\ Cardinality(HistoryTitleKeys) = 2
    /\ \E order \in EnumerationOrders(allLifts) :
          Take(titleCandidates(order), 3) = << <<"P", "u", "s", "h", " ", "D", "a", "y">>, <<"L", "e", "g", " ", "D", "a", "y">>, <<"A", "r", "m", " ", "D", "a", "y">> >>

\* some word of text (a maximal run of characters other than white space,
\* '-', '/', ':', '(' and ')') starts with q, ignoring case
HasTokenStarting(text, q) ==
    LET lower == toLowerCase(text)
    IN  \E i \in 1..Len(text) :
            /\ i = 1 \/ text[i - 1] \in WordSeparators
            /\ i + Len(q) - 1 <= Len(text)
            /\ \A k \in 1..Len(q) : text[i + k - 1] \notin WordSeparators
            /\ SubSeq(lower, i, i + Len(q) - 1) = q

Passes(text, q) == q = <<>> \/ HasTokenStarting(text, q)

DefaultTitleKeys ==
    { toLowerCase(Trim(DEFAULT_LIFT_TITLES[i])) : i \in 1..Len(DEFAULT_LIFT_TITLES) }

DefaultMovementKeys ==
    { toLowerCase(Trim(DEFAULT_MOVEMENTS[i])) : i \in 1..Len(DEFAULT_MOVEMENTS) }

\* the movement names of the lifts other than the current one
HistoryNameKeys ==
    UNION { { toLowerCase(Trim(allLifts[id].movements[i].name)) :
                i \in 1..Len(allLifts[id].movements) } :
            id \in DOMAIN allLifts \ {lift.id} } \ { <<>> }

\* C26: for every enumeration order, the title candidates are the history
\* and default titles, and the movement candidates the names of the other
\* lifts and the default names, that have a word starting with the trimmed,
\* lower-cased query (all of them when the query is empty), and every text
\* on display is one of them.
C26_QueryFilter ==
    /\ suggestionContext = "title" =>
          \A order \in EnumerationOrders(allLifts) :
              /\ KeysOf(titleCandidates(order))
                    = { key \in HistoryTitleKeys \cup DefaultTitleKeys : Passes(key, query) }
              /\ \A i \in 1..Len(titleSuggestions(order)) :
                    Passes(titleSuggestions(order)[i], query)
    /\ suggestionContext = "movement" =>
          \A order \in OtherLiftOrders :
              /\ KeysOf(movementCandidates(order))
                    = { key \in HistoryNameKeys \cup DefaultMovementKeys : Passes(key, query) }
              /\ \A i \in 1..Len(movementSuggestions(order)) :
                    Passes(movementSuggestions(order)[i], query)

\* the query "d" brings Leg Day, whose second word starts with it
C26_Witness ==
    /\ suggestionContext = "title"
    /\ query = <<"d">>
    /\ \E order \in EnumerationOrders(allLifts) :
          \E i \in 1..Len(titleSuggestions(order)) : titleSuggestions(order)[i] = <<"L", "e", "g", " ", "D", "a", "y">>

\* the names, in some lift other than the current one whose title is that
\* of the current lift, that match the query and are not in the current lift
SameTitleNameKeys ==
    { key \in UNION { { toLowerCase(Trim(allLifts[id].movements[i].name)) :
                          i \in 1..Len(allLifts[id].movements) } :
                      id \in { other \in DOMAIN allLifts \ {lift.id} :
                                 isNameMatched(allLifts[other]) } } :
        key # <<>> /\ key \notin existingNames /\ Passes(key, query) }

\* the matching names that occur only in differently titled lifts
OtherTitleNameKeys ==
    { key \in HistoryNameKeys \ SameTitleNameKeys :
        key \notin existingNames /\ Passes(key, query) }

\* the matching default names that occur in no other lift
DefaultOnlyNameKeys ==
    { key \in DefaultMovementKeys \ HistoryNameKeys :
        key \notin existingNames /\ Passes(key, query) }

Rank(ranked, key) == CHOOSE i \in 1..Len(ranked) : toLowerCase(ranked[i]) = key

RankedAhead(ranked, first, second) ==
    \A a \in first, b \in second : Rank(ranked, a) < Rank(ranked, b)

\* C27: in the movement context and for every enumeration order of the
\* lifts, every matching name of a lift titled like the current one (and
\* not in the current lift) is ranked ahead of every matching name that
\* occurs only in differently titled lifts, and these ahead of every
\* matching default name.
C27_SameTitleNamesFirst ==
    suggestionContext = "movement" =>
    \A order \in OtherLiftOrders :
        LET ranked == movementCandidates(order)
        IN  /\ RankedAhead(ranked, SameTitleNameKeys, OtherTitleNameKeys)
            /\ RankedAhead(ranked, SameTitleNameKeys, DefaultOnlyNameKeys)
            /\ RankedAhead(ranked, OtherTitleNameKeys, DefaultOnlyNameKeys)

\* the names of the current lift that match the query
ExistingMatchingKeys == { key \in existingNames : Passes(key, query) }

Min(a, b) == IF a <= b THEN a ELSE b

\* C28: in the movement context and for every enumeration order, a candidate
\* that is a name of the current lift is ranked behind every candidate that
\* is not, and when fewer than 3 candidates are not names of the current
\* lift the places they leave among the 3 on display are taken by the names
\* of the current lift that match the query.
C28_ExistingNamesLast ==
    suggestionContext = "movement" =>
    \A order \in OtherLiftOrders :
        LET ranked == movementCandidates(order)
            shown == movementSuggestions(order)
            higher == { i \in 1..Len(ranked) : toLowerCase(ranked[i]) \notin existingNames }
            shownExisting == { i \in 1..Len(shown) : toLowerCase(shown[i]) \in existingNames }
        IN  /\ \A i \in higher, j \in (1..Len(ranked)) \ higher : i < j
            /\ Cardinality(higher) < 3 =>
                  Cardinality(shownExisting)
                     = Min(3 - Cardinality(higher), Cardinality(ExistingMatchingKeys))

\* the lifts other than the current one, scored strictly below it, that
\* hold a movement named like the edited movement
PriorLifts ==
    { id \in DOMAIN allLifts :
        /\ allLifts[id].id # lift.id
        /\ getLiftSortKey(allLifts[id]) < getLiftSortKey(lift)
        /\ \E i \in 1..Len(allLifts[id].movements) :
              toLowerCase(Trim(allLifts[id].movements[i].name))
                 = toLowerCase(editedMovementName) }

MostRecentPriorLifts ==
    { id \in PriorLifts :
        \A other \in PriorLifts :
            getLiftSortKey(allLifts[other]) <= getLiftSortKey(allLifts[id]) }

\* C29: while a set of a named movement is edited and for every enumeration
\* order, the weight list is empty when no other lift scored strictly below
\* the current lift holds a movement of that name (ignoring case and
\* surrounding white space), and otherwise it is the suggestion computed
\* from the sets of that movement in one such lift of the greatest score:
\* no other lift contributes.
C29_OnePriorLift ==
    ( suggestionContext = "weight" /\ editedMovementName # <<>> ) =>
    \A order \in OtherLiftOrders :
        IF PriorLifts = {} THEN weightSuggestions(order) = <<>>
        ELSE \E id \in MostRecentPriorLifts :
                weightSuggestions(order)
                   = bestWeight(WeightsOfMovements(allLifts[id].movements,
                                                   toLowerCase(editedMovementName)))

\* two earlier lifts hold the movement; the later of them has one set of
\* 200, the current lift a set of 300, and 200 is suggested
C29_Witness ==
    /\ suggestionContext = "weight"
    /\ Cardinality(PriorLifts) = 2
    /\ Cardinality(MostRecentPriorLifts) = 1
    /\ \A order \in OtherLiftOrders : weightSuggestions(order) = << <<"2", "0", "0">> >>

\* the contiguous sub-ranges <<a, b>> of at least 2 of n sorted weights
SubRanges(n) == { r \in (1..n) \X (1..n) : r[1] < r[2] }

\* range divided by length of r is below (equal to) that of q, by cross products
RatioBelow(sorted, r, q) ==
    (sorted[r[2]].weight - sorted[r[1]].weight) * (q[2] - q[1] + 1)
       < (sorted[q[2]].weight - sorted[q[1]].weight) * (r[2] - r[1] + 1)

RatioEqual(sorted, r, q) ==
    (sorted[r[2]].weight - sorted[r[1]].weight) * (q[2] - q[1] + 1)
       = (sorted[q[2]].weight - sorted[q[1]].weight) * (r[2] - r[1] + 1)

\* the sub-ranges of the smallest ratio and, among those, of the greatest
\* length; the one weight when there is no sub-range
TightestClusters(sorted) ==
    IF Len(sorted) = 1 THEN { <<1, 1>> }
    ELSE { r \in SubRanges(Len(sorted)) :
             \A q \in SubRanges(Len(sorted)) :
                 \/ RatioBelow(sorted, r, q)
                 \/ RatioEqual(sorted, r, q) /\ r[2] - r[1] >= q[2] - q[1] }

\* the weight is within [min, max] of the cluster, widened on each side by
\* the larger of a tenth of max - min and 2.5 (weights are in hundredths)
WithinWidened(weight, sorted, r) ==
    LET lo == sorted[r[1]].weight
        hi == sorted[r[2]].weight
        widening10 == IF hi - lo >= 2500 THEN hi - lo ELSE 2500
    IN  10 * lo - widening10 <= 10 * weight /\ 10 * weight <= 10 * hi + widening10

\* the latest of the sets of the prior lift that are within the widened
\* range of cluster r
LatestWithin(sets, sorted, r) ==
    LET within == { i \in 1..Len(sets) : WithinWidened(sets[i].weight, sorted, r) }
    IN  { i \in within : \A j \in within : sets[j].sortKey <= sets[i].sortKey }

WeightsOf(sets) == [ i \in 1..Len(sets) |-> sets[i].weight ]

\* C30: while a set is edited and the prior lift holds sets of the movement
\* with a weight above 0, for every enumeration order the weight on display
\* is that of the latest of the prior lift's sets whose weight is within
\* [min, max] of a tightest cluster widened on each side by max(10% of the
\* cluster range, 2.5); and for the prior weights [135, 140, 95] it is "140".
C30_LatestSetOfCluster ==
    ( suggestionContext = "weight" /\ editedMovementName # <<>> ) =>
    \A order \in OtherLiftOrders :
        LET sets == weightedSets(order)
            sorted == sortByWeight(sets)
        IN  sets # <<>> =>
            /\ \E r \in TightestClusters(sorted) :
                  \E i \in LatestWithin(sets, sorted, r) :
                      weightSuggestions(order) = << weightToString(sets[i].weight) >>
            /\ WeightsOf(sets) = <<13500, 14000, 9500>>
                  => weightSuggestions(order) = << <<"1", "4", "0">> >>

\* the sub-range <<first, last>> of the sorted weights that the cluster
\* search ends with
chosenCluster(sorted) ==
    LET best == findBestCluster(sorted, clustersTried(Len(sorted)), <<>>)
    IN  << best[1].first, best[1].first + best[1].size - 1 >>

\* C31: while a set is edited and the prior lift holds 2 or more sets of the
\* movement with a weight above 0, for every enumeration order the cluster
\* the search ends with is a contiguous sub-range of at least 2 of the
\* ascending-sorted weights whose range divided by length is the smallest,
\* and the longest among those of exactly that ratio: no sub-range of a
\* strictly larger ratio is chosen over one of a smaller ratio.
C31_TightestClusterChosen ==
    ( suggestionContext = "weight" /\ editedMovementName # <<>> ) =>
    \A order \in OtherLiftOrders :
        LET sorted == sortByWeight(weightedSets(order))
        IN  Len(sorted) >= 2 => chosenCluster(sorted) \in TightestClusters(sorted)

\* the weights above 0 of the sets of the edited movement in the prior lift
\* the search selects
PositiveWeights(order) ==
    IF previousLift(order) = <<>> THEN {}
    ELSE LET movements == previousLift(order)[1].movements
         IN  { Val(parseFloat(movements[i].sets[j].weight)) :
                 <<i, j>> \in { p \in (1..Len(movements)) \X (1..MaxWeights) :
                                  /\ toLowerCase(Trim(movements[p[1]].name))
                                        = toLowerCase(editedMovementName)
                                  /\ p[2] <= Len(movements[p[1]].sets)
                                  /\ parseFloat(movements[p[1]].sets[p[2]].weight) # Null
                                  /\ Val(parseFloat(movements[p[1]].sets[p[2]].weight)) > 0 } }

\* C32: while a set of a named movement is edited and for every enumeration
\* order, when the selected prior lift holds a set of the movement with a
\* weight above 0 (a single one too), the weight list is exactly one string,
\* the string form of one of those weights: it is never empty.
C32_OneWeightSuggested ==
    ( suggestionContext = "weight" /\ editedMovementName # <<>> ) =>
    \A order \in OtherLiftOrders :
        PositiveWeights(order) # {} =>
            /\ Len(weightSuggestions(order)) = 1
            /\ \E w \in PositiveWeights(order) :
                  weightSuggestions(order)[1] = weightToString(w)

\* the prior lift holds three sets of the movement of which only the second
\* has a weight above 0, and that weight is suggested
C32_Witness ==
    /\ suggestionContext = "weight"
    /\ editedMovementName # <<>>
    /\ \A order \in OtherLiftOrders :
          /\ previousLift(order) # <<>>
          /\ Len(previousLift(order)[1].movements[1].sets) = 3
          /\ PositiveWeights(order) = {5000}
          /\ weightSuggestions(order) = << <<"5", "0">> >>

(***************************************************************************)
(* C33 - C40.                                                              *)
(***************************************************************************)
\* C33: timers do not queue.  Of the timeouts that reset the
\* transitioning-to-set flag at most one is pending at any time, so that an
\* earlier one cannot fire after a later one was started.
C33_NoTimerQueue ==
    transitionTimers <= 1

\* the settled session in which a pending timeout does fire: setTimeout
\* callbacks run once their 100 ms have passed
SpecSettledTimed == SpecSettled /\ WF_vars(TransitionTimerFires)

SetAppliedAt(before, after, pos, first, second) ==
    /\ Len(after.movements) = Len(before.movements)
    /\ pos \in 1..Len(before.movements)
    /\ \A k \in 1..Len(before.movements) :
          k # pos => after.movements[k] = before.movements[k]
    /\ after.movements[pos].name = before.movements[pos].name
    /\ LET old == before.movements[pos].sets
           new == after.movements[pos].sets
       IN  \/ new = Append(old, MkSet(first, second))
           \/ \E j \in 1..Len(old) : new = [old EXCEPT ![j] = MkSet(first, second)]

\* the lift a submit of <<first, second>> makes of the state the step ends in
SubmitAfterStep(first, second) ==
    entrySubmitLift(lift', entryMode', editingTarget', editingMovementIndex',
                    editingSetIndex', isAddingNewMovement', first, second)

\* C36: while a set of the movement at index m is targeted, a confirmed
\* delete of another movement or of a set is followed by a submit that is
\* applied to that same movement, wherever the delete has moved it, and to
\* no other; the submit is not dropped.
C36_SubmitAppliesToSelectedMovement ==
    [][ \A m \in MovementIndices :
          ( /\ editingTarget = "set"
            /\ entryMode = "double"
            /\ editingMovementIndex = Some(m)
            /\ m < Len(lift.movements) )
          => /\ \A i \in MovementIndices \ {m} :
                   DeleteMovement(i) =>
                      \A f \in SubmittedWeights, s \in SubmittedReps :
                          SetAppliedAt(lift', SubmitAfterStep(f, s),
                                       IF i < m THEN m ELSE m + 1, f, s)
             /\ \A i \in MovementIndices, si \in 0..(MaxSets - 1) :
                   DeleteSet(i, si) =>
                      \A f \in SubmittedWeights, s \in SubmittedReps :
                          SetAppliedAt(lift', SubmitAfterStep(f, s), m + 1, f, s) ]_vars

\* entryMode is double exactly while a set is the target
ModeAgreesWithTarget == (entryMode = "double") <=> (editingTarget = "set")

\* both indices are given and the set index is at most the number of sets
\* of the targeted movement
SetTargetWellFormed ==
    /\ editingMovementIndex # Null
    /\ editingSetIndex # Null
    /\ TargetedMovement(lift, editingMovementIndex) # <<>>
    /\ Val(editingSetIndex)
          <= Len(TargetedMovement(lift, editingMovementIndex)[1].sets)

\* C37: in every reachable state entryMode is double if and only if
\* editingTarget is set, and while editingTarget is set both indices are
\* non-null and editingSetIndex is at most the targeted movement's number of
\* sets.
C37_ModeAndTargetAgree ==
    /\ ModeAgreesWithTarget
    /\ editingTarget = "set" => SetTargetWellFormed

\* the editing state is that of a new movement not yet appended
EditsNewMovement ==
    editingTarget = "movementName" /\ editingMovementIndex = Some(NEW_MOVEMENT_INDEX)

\* C38: in every reachable state isAddingNewMovement is true if and only if
\* editingTarget is movementName and editingMovementIndex is the sentinel
\* -1; the sentinel does not remain while isAddingNewMovement is false.
C38_AddingIffSentinel ==
    isAddingNewMovement <=> EditsNewMovement

(***************************************************************************)
(* C39.  The list of lifts.  The editor is left with the back button while *)
(* its saves may still be running, and the list deletes a lift it shows:   *)
(* it reads the stored lifts, removes the id and writes the object back.   *)
(***************************************************************************)
\* the back button of the header: navigation.goBack()
goBack ==
    /\ route = "LiftEditor"
    /\ route' = "LiftList"
    /\ UNCHANGED <<uiVars, allLifts, storeVars, pending, mutated>>
    /\ UNCHANGED footerVars
    /\ ScrollUnmount
    /\ UNCHANGED syncVars

NumListDeletes(ops) ==
    Cardinality({ k \in 1..Len(ops) : ops[k].kind = "listDelete" })

\* handleDeleteLift of the list, for a lift it shows: retrieveLifts is called
listHandleDeleteLift(liftId) ==
    /\ route = "LiftList"
    /\ liftId \in DOMAIN store
    /\ NumListDeletes(pending) < MaxDeletes
    /\ pending' = Append(pending,
                         Op("listDelete", MkLift(liftId, "", <<>>, <<>>), "start", NoStore))
    /\ UNCHANGED <<uiVars, allLifts, storeVars, route, mutated>>
    /\ UNCHANGED footerVars
    /\ UNCHANGED scrollVars
    /\ UNCHANGED syncVars

\* handleDeleteLift of the list, operation k: delete liftsData[liftId] and
\* AsyncStorage.setItem of the lifts it read
ListDeleteWrite(k) ==
    /\ k \in 1..Len(pending)
    /\ pending[k].kind = "listDelete"
    /\ pending[k].phase = "read"
    /\ store' = Without(pending[k].snap, pending[k].lift.id)
    /\ pending' = [pending EXCEPT ![k].phase = "written"]
    /\ UNCHANGED <<uiVars, allLifts, writeOrderBroken, route, mutated>>
    /\ UNCHANGED footerVars
    /\ UNCHANGED scrollVars
    /\ UNCHANGED syncVars

\* handleDeleteLift of the list resumes after the await: setLifts
ListDeleteDone(k) ==
    /\ k \in 1..Len(pending)
    /\ pending[k].kind = "listDelete"
    /\ pending[k].phase = "written"
    /\ pending' = RemoveOp(pending, k)
    /\ UNCHANGED <<uiVars, allLifts, storeVars, route, mutated>>
    /\ UNCHANGED footerVars
    /\ UNCHANGED scrollVars
    /\ UNCHANGED syncVars

\* a store that holds the opened lift and another one
ListStore == (OpenId :> StoredFull) @@ (OtherId :> LegacyOther)

InitList == \E i \in {"", OpenId} : Opened([liftId |-> i, lifts |-> ListStore])

\* one submit is made, so that one save of the edited lift runs
NextList ==
    \/ Mounted /\ ~mutated
          /\ \E f \in FirstInputs \cap SavingTexts, s \in SecondInputs :
                Accepted(f, s) /\ Submit(f, s)
    \/ goBack
    \/ \E id \in {OpenId, OtherId, NewId} : listHandleDeleteLift(id)
    \/ \E k \in 1..(MaxPending + 3) : StoreRead(k)
    \/ \E k \in 1..(MaxPending + 3) : SaveWrite(k)
    \/ \E k \in 1..(MaxPending + 3) : SaveDone(k)
    \/ \E k \in 1..(MaxPending + 3) : HydrateDone(k)
    \/ \E k \in 1..(MaxPending + 3) : LoadDone(k)
    \/ \E k \in 1..(MaxPending + 3) : ListDeleteWrite(k)
    \/ \E k \in 1..(MaxPending + 3) : ListDeleteDone(k)
    \/ \E k \in 1..(MaxPending + 3) : ResumeUnmounted(k)

SpecList == InitList /\ [][NextList]_vars

\* operations j and k are a save and a delete of different lifts whose
\* writes have both landed
BothWritten(j, k) ==
    /\ j \in 1..Len(pending) /\ k \in 1..Len(pending)
    /\ pending[j].kind = "save" /\ pending[j].phase = "written"
    /\ pending[k].kind = "listDelete" /\ pending[k].phase = "written"
    /\ pending[j].lift.id # pending[k].lift.id

\* the store holds what operation j saved and not what operation k deleted
ReflectsBoth(j, k) ==
    /\ pending[j].lift.id \in DOMAIN store
    /\ store[pending[j].lift.id] = pending[j].lift
    /\ pending[k].lift.id \notin DOMAIN store

\* C39: once the save of a lift and the delete of a different lift have both
\* written, whatever the order of their reads and writes, the store holds
\* the saved value of the one and no entry of the other.
C39_DifferentIdsKeepBoth ==
    \A j, k \in 1..(MaxPending + 3) : BothWritten(j, k) => ReflectsBoth(j, k)

\* a save and a delete of another lift have both written and both show
C39_Witness ==
    \E j, k \in 1..(MaxPending + 3) : BothWritten(j, k) /\ ReflectsBoth(j, k)

(***************************************************************************)
(* C34.  The scroll session.  The views report their layouts at any time   *)
(* after they are rendered; a report that concerns the active target asks  *)
(* for an animation frame that attempts the scroll with the callbacks of   *)
(* the render in which the report arrived.  The lift stays within the      *)
(* bounds of the saving session.                                           *)
(***************************************************************************)
Layout(y) == [y |-> y, height |-> 60]
\* each view reports one layout
Layouts == { Layout(300) }

\* requestAnimationFrame(scroll), scroll made by the current render
requestAnimationFrame(relevant) ==
    IF relevant
    THEN /\ Cardinality(animationFrames \cup {ActiveClosure}) <= MaxFrames
         /\ animationFrames' = animationFrames \cup {ActiveClosure}
    ELSE UNCHANGED animationFrames

\* onLayout of the title
registerTitleLayout(layout) ==
    /\ route = "LiftEditor"
    /\ titleLayoutRef # Some(layout)
    /\ titleLayoutRef' = Some(layout)
    /\ requestAnimationFrame(editingTarget = "title")
    /\ UNCHANGED <<movementLayoutsRef, setLayoutsRef, addSetLayoutsRef,
                   scrollRetryTimeoutRef, lastScrollTo>>
    /\ UNCHANGED <<uiVars, allLifts, storeVars, pending, mutated, route>>
    /\ UNCHANGED footerVars
    /\ UNCHANGED syncVars

\* onLayout of the view of movement movementIndex, or of the new movement
registerMovementLayout(movementIndex, layout) ==
    /\ route = "LiftEditor"
    /\ \/ movementIndex >= 0 /\ movementIndex < Len(lift.movements)
       \/ movementIndex = NEW_MOVEMENT_INDEX /\ isAddingNewMovement
    /\ movementLayoutsRef[movementIndex] # Some(layout)
    /\ movementLayoutsRef' = [movementLayoutsRef EXCEPT ![movementIndex] = Some(layout)]
    /\ requestAnimationFrame(editingMovementIndex = Some(movementIndex)
                             /\ editingTarget # "none")
    /\ UNCHANGED <<titleLayoutRef, setLayoutsRef, addSetLayoutsRef,
                   scrollRetryTimeoutRef, lastScrollTo>>
    /\ UNCHANGED <<uiVars, allLifts, storeVars, pending, mutated, route>>
    /\ UNCHANGED footerVars
    /\ UNCHANGED syncVars

\* onLayout of the line of set setIndex of movement movementIndex
registerSetLayout(movementIndex, setIndex, layout) ==
    /\ route = "LiftEditor"
    /\ movementIndex >= 0 /\ movementIndex < Len(lift.movements)
    /\ setIndex < Len(lift.movements[movementIndex + 1].sets)
    /\ setLayoutsRef[<<movementIndex, setIndex>>] # Some(layout)
    /\ setLayoutsRef' = [setLayoutsRef EXCEPT ![<<movementIndex, setIndex>>] = Some(layout)]
    /\ requestAnimationFrame(editingTarget = "set"
                             /\ editingMovementIndex = Some(movementIndex))
    /\ UNCHANGED <<titleLayoutRef, movementLayoutsRef, addSetLayoutsRef,
                   scrollRetryTimeoutRef, lastScrollTo>>
    /\ UNCHANGED <<uiVars, allLifts, storeVars, pending, mutated, route>>
    /\ UNCHANGED footerVars
    /\ UNCHANGED syncVars

\* onLayout of the empty line under the sets of movement movementIndex
registerAddSetLayout(movementIndex, layout) ==
    /\ route = "LiftEditor"
    /\ \/ movementIndex >= 0 /\ movementIndex < Len(lift.movements)
       \/ movementIndex = NEW_MOVEMENT_INDEX /\ isAddingNewMovement
    /\ addSetLayoutsRef[movementIndex] # Some(layout)
    /\ addSetLayoutsRef' = [addSetLayoutsRef EXCEPT ![movementIndex] = Some(layout)]
    /\ requestAnimationFrame(editingTarget = "set"
                             /\ editingMovementIndex = Some(movementIndex))
    /\ UNCHANGED <<titleLayoutRef, movementLayoutsRef, setLayoutsRef,
                   scrollRetryTimeoutRef, lastScrollTo>>
    /\ UNCHANGED <<uiVars, allLifts, storeVars, pending, mutated, route>>
    /\ UNCHANGED footerVars
    /\ UNCHANGED syncVars

\* the animation frame asked for with closure c: attemptScrollToActiveTarget
\* of that render
AnimationFrame(c) ==
    /\ c \in animationFrames
    /\ animationFrames' = animationFrames \ {c}
    /\ attemptScrollToActiveTarget(c, lastScrollTo)
    /\ UNCHANGED layoutVars
    /\ UNCHANGED <<uiVars, allLifts, storeVars, pending, mutated, route>>
    /\ UNCHANGED footerVars
    /\ UNCHANGED syncVars

\* the retry timer fires after 200 ms: retryScroll of the render that set it
ScrollRetryFires ==
    /\ scrollRetryTimeoutRef # Null
    /\ attemptScrollToActiveTarget(Val(scrollRetryTimeoutRef), lastScrollTo)
    /\ UNCHANGED <<layoutVars, animationFrames>>
    /\ UNCHANGED <<uiVars, allLifts, storeVars, pending, mutated, route>>
    /\ UNCHANGED footerVars
    /\ UNCHANGED syncVars

NextScroll ==
    \/ QuietStore /\ \E f \in FirstInputs \cap SavingTexts, s \in SecondInputs :
          Accepted(f, s) /\ Submit(f, s) /\ SavingBounded(lift')
    \/ QuietStore /\ TitlePress
    \/ QuietStore /\ \E i \in 0..(MaxSavingMovements - 1) : MovementPress(i)
    \/ QuietStore /\ \E i \in 0..(MaxSavingMovements - 1),
                        si \in 0..(MaxSavingSets - 1) : SetPress(i, si)
    \/ QuietStore /\ \E i \in 0..(MaxSavingMovements - 1) : EmptyLinePress(i, FALSE)
    \/ QuietStore /\ NewMovementPress
    \/ QuietStore /\ handleKeyboardDismiss
    \/ \E layout \in Layouts : registerTitleLayout(layout)
    \/ \E i \in LayoutIndices, layout \in Layouts : registerMovementLayout(i, layout)
    \/ \E key \in SetLayoutKeys, layout \in Layouts :
          registerSetLayout(key[1], key[2], layout)
    \/ \E i \in LayoutIndices, layout \in Layouts : registerAddSetLayout(i, layout)
    \/ \E c \in animationFrames : AnimationFrame(c)
    \/ ScrollRetryFires
    \/ TransitionTimerFires
    \/ FocusSetFlagTimerFires
    \/ \E k \in 1..(MaxPending + 2) : StoreRead(k)
    \/ \E k \in 1..(MaxPending + 2) : SaveWrite(k)
    \/ \E k \in 1..(MaxPending + 2) : SaveDone(k)
    \/ \E k \in 1..(MaxPending + 2) : HydrateDone(k)
    \/ \E k \in 1..(MaxPending + 2) : LoadDone(k)

SpecScroll == Init /\ [][NextScroll]_vars

\* an attempt of the current render would fail: the layout of the active
\* target's anchor is unknown
AnchorUnknown ==
    editingTarget # "none" /\ scrollToActiveEditingTarget(ActiveClosure) = Null

\* the layout of the active target's anchor is known
AnchorKnown ==
    editingTarget # "none" /\ scrollToActiveEditingTarget(ActiveClosure) # Null

\* C34: while the anchor of the active target is unknown a retry is pending;
\* once the anchor is known and no retry and no frame is pending, the last
\* scroll asked for is the one to max(0, anchorY - 128); and a pending retry
\* is always one of the current target, never of a target that was left.
C34_ScrollRetry ==
    /\ AnchorUnknown => scrollRetryTimeoutRef # Null \/ animationFrames # {}
    /\ (AnchorKnown /\ scrollRetryTimeoutRef = Null /\ animationFrames = {})
          => lastScrollTo = scrollToActiveEditingTarget(ActiveClosure)
    /\ scrollRetryTimeoutRef # Null
          => editingTarget # "none" /\ Val(scrollRetryTimeoutRef) = ActiveClosure

(***************************************************************************)
(* C40.  The push to the database.  Times are in minutes.  syncCalls keeps *)
(* every call made, with what it has read and done; an async call runs to  *)
(* its first await at once and resumes, one await at a time, at any later  *)
(* moment.  Nothing in the application writes the stored movements, so a   *)
(* call pushes the lifts only.                                             *)
(***************************************************************************)
UserIds == { Null, Some("u") }

SyncCall(userId, force, phase) ==
    [ userId |-> userId, force |-> force, phase |-> phase,
      lastSyncTime |-> 0, currentTime |-> 0, lifts |-> NoStore,
      pushed |-> FALSE, failed |-> FALSE, recorded |-> FALSE ]

\* !force && currentTime - lastSyncTime < 5 * 60 * 1000
throttled(force, currentTime, lastSyncTime) ==
    ~force /\ currentTime - lastSyncTime < SYNC_INTERVAL

\* syncToDatabase(userId, force) is called: it returns at once without a
\* user id, and otherwise asks for the stored time of the last sync
syncToDatabase(userId, force) ==
    /\ Len(syncCalls) < MaxSyncCalls
    /\ syncCalls' = Append(syncCalls,
                           SyncCall(userId, force,
                                    IF userId = Null THEN "returned" ELSE "start"))
    /\ UNCHANGED <<lastSyncItem, now, remoteWrites>>
    /\ UNCHANGED <<uiVars, allLifts, storeVars, pending, mutated, route>>
    /\ UNCHANGED footerVars
    /\ UNCHANGED scrollVars

\* call k resumes with the stored time, takes Date.now() and returns when
\* it is throttled
SyncCheck(k) ==
    /\ k \in 1..Len(syncCalls)
    /\ syncCalls[k].phase = "start"
    /\ LET lastSyncTime == IF lastSyncItem = Null THEN 0 ELSE Val(lastSyncItem)
       IN  syncCalls' = [syncCalls EXCEPT
               ![k].lastSyncTime = lastSyncTime,
               ![k].currentTime = now,
               ![k].phase = IF throttled(syncCalls[k].force, now, lastSyncTime)
                            THEN "returned" ELSE "checked"]
    /\ UNCHANGED <<lastSyncItem, now, remoteWrites>>
    /\ UNCHANGED <<uiVars, allLifts, storeVars, pending, mutated, route>>
    /\ UNCHANGED footerVars
    /\ UNCHANGED scrollVars

\* call k resumes with the local data
SyncRead(k) ==
    /\ k \in 1..Len(syncCalls)
    /\ syncCalls[k].phase = "checked"
    /\ \E lifts \in getLocalData(store) :
          syncCalls' = [syncCalls EXCEPT ![k].lifts = lifts, ![k].phase = "read"]
    /\ UNCHANGED <<lastSyncItem, now, remoteWrites>>
    /\ UNCHANGED <<uiVars, allLifts, storeVars, pending, mutated, route>>
    /\ UNCHANGED footerVars
    /\ UNCHANGED scrollVars

\* call k sets the lifts of the user in the database, if there are any; the
\* set succeeds or throws, and an error ends the call
SyncPush(k, ok) ==
    /\ k \in 1..Len(syncCalls)
    /\ syncCalls[k].phase = "read"
    /\ IF DOMAIN syncCalls[k].lifts = {}
       THEN /\ ok
            /\ syncCalls' = [syncCalls EXCEPT ![k].phase = "pushed"]
            /\ UNCHANGED remoteWrites
       ELSE IF ok
       THEN /\ syncCalls' = [syncCalls EXCEPT ![k].phase = "pushed", ![k].pushed = TRUE]
            /\ remoteWrites' = Append(remoteWrites,
                                      [at |-> now, lifts |-> syncCalls[k].lifts])
       ELSE /\ syncCalls' = [syncCalls EXCEPT ![k].phase = "returned", ![k].failed = TRUE]
            /\ UNCHANGED remoteWrites
    /\ UNCHANGED <<lastSyncItem, now>>
    /\ UNCHANGED <<uiVars, allLifts, storeVars, pending, mutated, route>>
    /\ UNCHANGED footerVars
    /\ UNCHANGED scrollVars

\* call k stores its currentTime as the time of the last sync
SyncRecord(k) ==
    /\ k \in 1..Len(syncCalls)
    /\ syncCalls[k].phase = "pushed"
    /\ lastSyncItem' = Some(syncCalls[k].currentTime)
    /\ syncCalls' = [syncCalls EXCEPT ![k].phase = "returned", ![k].recorded = TRUE]
    /\ UNCHANGED <<now, remoteWrites>>
    /\ UNCHANGED <<uiVars, allLifts, storeVars, pending, mutated, route>>
    /\ UNCHANGED footerVars
    /\ UNCHANGED scrollVars

\* a minute passes
ClockTick ==
    /\ now < ClockStart + MaxClock
    /\ now' = now + 1
    /\ UNCHANGED <<lastSyncItem, syncCalls, remoteWrites>>
    /\ UNCHANGED <<uiVars, allLifts, storeVars, pending, mutated, route>>
    /\ UNCHANGED footerVars
    /\ UNCHANGED scrollVars

InitSync ==
    \E o \in { [liftId |-> "", lifts |-> NoStore],
               [liftId |-> OpenId, lifts |-> (OpenId :> StoredFull)] } : Opened(o)

NextSync ==
    \/ \E userId \in UserIds, force \in BOOLEAN : syncToDatabase(userId, force)
    \/ \E k \in 1..MaxSyncCalls : SyncCheck(k)
    \/ \E k \in 1..MaxSyncCalls : SyncRead(k)
    \/ \E k \in 1..MaxSyncCalls, ok \in BOOLEAN : SyncPush(k, ok)
    \/ \E k \in 1..MaxSyncCalls : SyncRecord(k)
    \/ ClockTick

SpecSync == InitSync /\ [][NextSync]_vars

\* call k has taken its time and compared it with the stored one
Checked(k) ==
    k \in 1..Len(syncCalls) /\ syncCalls[k].userId # Null /\ syncCalls[k].phase # "start"

\* a non-forced call that found the last sync less than the interval ago
\* has returned without a remote write and without storing a time
ThrottledDoesNothing ==
    \A k \in 1..MaxSyncCalls :
        (Checked(k) /\ ~syncCalls[k].force
           /\ syncCalls[k].currentTime - syncCalls[k].lastSyncTime < SYNC_INTERVAL)
        => /\ syncCalls[k].phase = "returned"
           /\ ~syncCalls[k].pushed /\ ~syncCalls[k].recorded

\* a call without a user id has returned and done nothing
NoUserDoesNothing ==
    \A k \in 1..Len(syncCalls) :
        syncCalls[k].userId = Null
        => /\ syncCalls[k].phase = "returned"
           /\ ~syncCalls[k].pushed /\ ~syncCalls[k].recorded

\* a time is stored only by a call whose push has completed without error,
\* and the stored time is the time of such a call
RecordedAfterPush ==
    /\ \A k \in 1..Len(syncCalls) :
          syncCalls[k].recorded
          => ~syncCalls[k].failed
             /\ (syncCalls[k].pushed \/ DOMAIN syncCalls[k].lifts = {})
    /\ lastSyncItem # Null
          => \E k \in 1..Len(syncCalls) :
                syncCalls[k].recorded /\ lastSyncItem = Some(syncCalls[k].currentTime)

\* two non-forced calls that both pushed are at least the interval apart
OnePushPerWindow ==
    \A j, k \in 1..Len(syncCalls) :
        (j < k /\ ~syncCalls[j].force /\ ~syncCalls[k].force
           /\ syncCalls[j].pushed /\ syncCalls[k].pushed)
        => syncCalls[k].currentTime - syncCalls[j].currentTime >= SYNC_INTERVAL

\* C40: a throttled non-forced call writes and records nothing, a call
\* without user id does nothing, the stored time of the last sync comes from
\* a push that completed, and at most one non-forced call pushes in any
\* five minutes, also when calls overlap.
C40_PushThrottled ==
    /\ ThrottledDoesNothing
    /\ NoUserDoesNothing
    /\ RecordedAfterPush
    /\ OnePushPerWindow

====
